---- MODULE Spec2Model ----
(***************************************************************************)
(* DOE generation engine and qualification steps of the injection-molding  *)
(* planner:                                                                *)
(*   - the factor model and the four design builders (domain/designs.ts),  *)
(*   - the run materializer generateRuns (services/experiments_service),   *)
(*   - the run preview estimator and the DOE routes (routes/experiments),  *)
(*   - the run flags route (routes/runs),                                  *)
(*   - the derived values and the summary of a qualification step          *)
(*     (services/qualification_service) and its value and settings routes  *)
(*     (routes/qualification),                                             *)
(*   - the runs of a qualification step (repos/qual_repo) and the routes   *)
(*     adding, deleting and flagging them,                                 *)
(*   - the guard of the experiment routes (middleware/task_permissions).   *)
(*                                                                         *)
(* Eight specifications over the same variables:                           *)
(*   DesignSpec  the design builders as pure functions: Init draws the     *)
(*               factor list, the seed and the size bound, one action per  *)
(*               builder applies it;                                       *)
(*   Spec        one DOE study of one experiment: its stored settings,     *)
(*               factor configs, design metadata and runs, driven by the   *)
(*               configs-save, generate and preview requests;              *)
(*   RegenSpec   the same study generated again and again, with run flags  *)
(*               set in between and statements of the store that may fail; *)
(*   QualSpec    one qualification step with two runs, driven by value     *)
(*               saves and settings saves, each followed by the recompute; *)
(*   GateSpec    step 5 with three runs, driven by the same saves;         *)
(*   RunsSpec    step 5 with its runs added, deleted and flagged and its   *)
(*               fields deleted between the saves;                         *)
(*   RunOrderSpec  steps 2 and 5 with their default runs, runs added and   *)
(*               deleted and the step page viewed again;                   *)
(*   AccessSpec  one experiment, its owner and assignees, and the requests *)
(*               of users on its routes.                                   *)
(***************************************************************************)
EXTENDS Integers, Sequences, FiniteSets, TLC

VARIABLES
    dIn,        \* DesignSpec: the arguments of the builder call
    dOut,       \* DesignSpec: the builder's result
    doe,        \* the doe_studies row
    recipeIds,  \* experiment_recipes rows of the experiment, in row order
    configs,    \* param_configs rows of the DOE, keyed by param_def_id
    meta,       \* design_metadata json blob of the DOE
    runs,       \* runs rows of the DOE with their run_values, in insert order
    resp,       \* what the last request answered
    prior,      \* RegenSpec: what the last generate request found stored;
                \* QualSpec: the summary the last successful save found stored
    qual,       \* QualSpec: one qualification step: its run values, its
                \* settings row, its summary row and the linked machine
    access         \* AccessSpec: an experiment, its owner and assignees, the
                \* user of the last request on it and what the guard answered

vars == <<dIn, dOut, doe, recipeIds, configs, meta, runs, resp, prior, qual, access>>

----------------------------------------------------------------------------
(* Bounds of the model *)

MaxFactors == 3     \* DesignSpec: longest factor list
MaxSeed == 1        \* DesignSpec: seeds 0..MaxSeed
MaxSize == 4        \* largest explicit maxRuns
MaxCenter == 2      \* largest centerPoints
MaxReplicates == 2  \* largest replicate_count
MaxRecipes == 2     \* most recipes linked to the experiment

----------------------------------------------------------------------------
(* Values *)

\* null / undefined of a nullable number
Null == -9999
\* a non-finite list element (what JSON.parse leaves where the json has null)
NaN == -9998

IsFinite(v) == v # Null /\ v # NaN

Min2(a, b) == IF a < b THEN a ELSE b
Max2(a, b) == IF a > b THEN a ELSE b

\* Array.prototype.slice(0, end)
Slice0(s, end) ==
    LET e == IF end < 0 THEN Max2(Len(s) + end, 0) ELSE Min2(end, Len(s))
    IN SubSeq(s, 1, e)

\* the empty object {}
EmptyObj == [k \in {} |-> 0]

----------------------------------------------------------------------------
(* lib/rng.js: Fisher-Yates driven by a linear congruential generator      *)
(* seeded with the stored integer seed.                                    *)

RECURSIVE FisherYates(_, _, _)
FisherYates(arr, state, i) ==
    IF i <= 1 THEN arr
    ELSE LET s2 == (state * 75 + 74) % 65537
             j == (s2 % i) + 1
             swapped == [arr EXCEPT ![i] = arr[j], ![j] = arr[i]]
         IN FisherYates(swapped, s2, i - 1)

seededShuffle(items, seed) == FisherYates(items, seed % 65537, Len(items))

----------------------------------------------------------------------------
(* domain/designs.ts *)

\* FactorConfig.list is null (<<>>) or an array (<<array>>)
ListOrEmpty(list) == IF list = <<>> THEN <<>> ELSE list[1]

levelsFromConfig(config) ==
    IF config.mode = "LIST" THEN SelectSeq(ListOrEmpty(config.list), IsFinite)
    ELSE IF config.mode = "RANGE" THEN
        IF config.rangeMin = Null \/ config.rangeMax = Null THEN <<>>
        ELSE IF config.levelCount = 3
             THEN <<config.rangeMin, (config.rangeMin + config.rangeMax) \div 2, config.rangeMax>>
             ELSE <<config.rangeMin, config.rangeMax>>
    ELSE IF config.fixedValue # Null THEN <<config.fixedValue>>
    ELSE <<>>

RECURSIVE cartesianUpTo(_, _)
cartesianUpTo(sets, n) ==
    IF n = 0 THEN << <<>> >>
    ELSE LET acc == cartesianUpTo(sets, n - 1)
             set == sets[n]
             m == Len(set)
         IN [t \in 1..(Len(acc) * m) |->
                Append(acc[((t - 1) \div m) + 1], set[((t - 1) % m) + 1])]

cartesian(sets) == cartesianUpTo(sets, Len(sets))

\* values[factor.paramDefId] = combo[idx] for each factor in order (last write wins)
ValuesOf(facs, combo) ==
    [id \in {facs[i].paramDefId : i \in 1..Len(facs)} |->
        combo[CHOOSE i \in 1..Len(facs) :
                /\ facs[i].paramDefId = id
                /\ \A j \in 1..Len(facs) : facs[j].paramDefId = id => j <= i]]

DesignRun(values) == [values |-> values, hasCoded |-> FALSE, coded |-> EmptyObj]

HasLevels(factor) == Len(levelsFromConfig(factor)) > 0

SimRunsUnshuffled(factors, maxRuns) ==
    LET usable == SelectSeq(factors, HasLevels)
        sets == [i \in 1..Len(usable) |-> levelsFromConfig(usable[i])]
        combos == Slice0(cartesian(sets), maxRuns)
    IN [t \in 1..Len(combos) |-> DesignRun(ValuesOf(usable, combos[t]))]

FfaRunsUnshuffled(factors, maxRuns) ==
    LET sets == [i \in 1..Len(factors) |-> levelsFromConfig(factors[i])]
        combos == Slice0(cartesian(sets), maxRuns)
    IN [t \in 1..Len(combos) |-> DesignRun(ValuesOf(factors, combos[t]))]

\* buildSimDesign without the filter on empty factors
buildSimDesignNoFilter(factors, seed, maxRuns) ==
    seededShuffle(FfaRunsUnshuffled(factors, maxRuns), seed)

\* buildSimDesign truncating after the shuffle instead of before it
buildSimDesignShuffleFirst(factors, seed, maxRuns) ==
    LET usable == SelectSeq(factors, HasLevels)
        combos == cartesian([i \in 1..Len(usable) |-> levelsFromConfig(usable[i])])
        all == [t \in 1..Len(combos) |-> DesignRun(ValuesOf(usable, combos[t]))]
    IN Slice0(seededShuffle(all, seed), maxRuns)

buildSimDesign(factors, seed, maxRuns) ==
    seededShuffle(SimRunsUnshuffled(factors, maxRuns), seed)

\* buildFfaDesign leaving out the factors without levels
buildFfaDesignSkippingEmpty(factors, seed, maxRuns) ==
    seededShuffle(SimRunsUnshuffled(factors, maxRuns), seed)

buildFfaDesign(factors, seed, maxRuns) ==
    seededShuffle(FfaRunsUnshuffled(factors, maxRuns), seed)

HasThreeLevels(factor) == Len(levelsFromConfig(factor)) = 3

BbdUsable(factors) == SelectSeq(factors, HasThreeLevels)

\* the (i, j) of "for i < usable.length; for j = i + 1 < usable.length", in loop order
RECURSIVE BbdPairs(_, _, _)
BbdPairs(i, j, k) ==
    IF i > k THEN <<>>
    ELSE IF j > k THEN BbdPairs(i + 1, i + 2, k)
    ELSE << <<i, j>> >> \o BbdPairs(i, j + 1, k)

BbdSigns == << <<-1, -1>>, <<-1, 1>>, <<1, -1>>, <<1, 1>> >>

BbdCodedRuns(factors, nCenters) ==
    LET usable == BbdUsable(factors)
        ids == {usable[i].paramDefId : i \in 1..Len(usable)}
        base == [id \in ids |-> 0]
        pairs == BbdPairs(1, 2, Len(usable))
        pairRuns == [t \in 1..(4 * Len(pairs)) |->
            LET p == pairs[((t - 1) \div 4) + 1]
                ab == BbdSigns[((t - 1) % 4) + 1]
                idA == usable[p[1]].paramDefId
                idB == usable[p[2]].paramDefId
                withA == [base EXCEPT ![idA] = ab[1]]
            IN [withA EXCEPT ![idB] = ab[2]]]
        centers == [c \in 1..nCenters |-> base]
    IN pairRuns \o centers

\* the center loop running once too often (c <= centerPoints)
BbdCodedExtraCenter(factors, centerPoints) ==
    BbdCodedRuns(factors, Max2(centerPoints + 1, 0))

\* codedRuns before the shuffle; for (let c = 0; c < centerPoints; c += 1)
BbdCodedUnshuffled(factors, centerPoints) ==
    BbdCodedRuns(factors, Max2(centerPoints, 0))

\* the level index with the two extremes exchanged
BbdLevelIndexSwapped(codedValue) ==
    IF codedValue = -1 THEN 3 ELSE IF codedValue = 1 THEN 1 ELSE 2

\* const index = codedValue === -1 ? 0 : codedValue === 1 ? 2 : 1 (0-based)
BbdLevelIndex(codedValue) == IF codedValue = -1 THEN 1 ELSE IF codedValue = 1 THEN 3 ELSE 2

BbdLevelMap(factors) ==
    LET usable == BbdUsable(factors)
    IN [id \in {usable[i].paramDefId : i \in 1..Len(usable)} |->
          levelsFromConfig(usable[CHOOSE i \in 1..Len(usable) :
                /\ usable[i].paramDefId = id
                /\ \A j \in 1..Len(usable) : usable[j].paramDefId = id => j <= i])]

buildBbdDesign(factors, seed, centerPoints) ==
    LET shuffled == seededShuffle(BbdCodedUnshuffled(factors, centerPoints), seed)
        levelMap == BbdLevelMap(factors)
        runOf(coded) ==
            [values |-> [id \in DOMAIN coded |-> levelMap[id][BbdLevelIndex(coded[id])]],
             hasCoded |-> TRUE,
             coded |-> coded]
    IN [runs |-> [t \in 1..Len(shuffled) |-> runOf(shuffled[t])],
        codedLevels |-> shuffled]

\* the combinations without levels.slice(0, 2)
ScreenCombosAllLevels(factors) ==
    cartesian([i \in 1..Len(factors) |-> levelsFromConfig(factors[i])])

ScreenCombos(factors) ==
    cartesian([i \in 1..Len(factors) |-> Slice0(levelsFromConfig(factors[i]), 2)])

buildScreenDesign(factors, seed, maxRuns) ==
    LET combos == ScreenCombos(factors)
        shuffled == seededShuffle(combos, seed)
        sampled == Slice0(shuffled, Min2(maxRuns, Len(combos)))
    IN [t \in 1..Len(sampled) |-> DesignRun(ValuesOf(factors, sampled[t]))]

----------------------------------------------------------------------------
(* DesignSpec: the builders applied to drawn arguments *)

FactorKinds == {"fixed", "fixedNull", "range2", "range3", "rangeNoMax", "listDup", "listNull"}

\* a FactorConfig of each kind for the parameter with id p (levels of different
\* parameters are disjoint; range bounds have an integral midpoint)
FactorOf(p, kind) ==
    [paramDefId |-> p,
     mode |-> IF kind \in {"fixed", "fixedNull"} THEN "FIXED"
              ELSE IF kind \in {"range2", "range3", "rangeNoMax"} THEN "RANGE"
              ELSE "LIST",
     rangeMin |-> IF kind \in {"range2", "range3", "rangeNoMax"} THEN 10 * p ELSE Null,
     rangeMax |-> IF kind \in {"range2", "range3"} THEN 10 * p + 4 ELSE Null,
     list |-> IF kind = "listDup" THEN << <<10 * p + 5, NaN, 10 * p + 5, 10 * p + 7>> >>
              ELSE <<>>,
     levelCount |-> IF kind = "range3" THEN 3 ELSE IF kind = "range2" THEN 2 ELSE Null,
     fixedValue |-> IF kind = "fixed" THEN 10 * p + 1 ELSE Null]

FactorLists ==
    UNION {{[i \in 1..n |-> FactorOf(i, ks[i])] : ks \in [1..n -> FactorKinds]} :
           n \in 0..MaxFactors}

NoDesign == [kind |-> "none", runs |-> <<>>, codedLevels |-> <<>>]
NoCall == [factors |-> <<>>, seed |-> 0, size |-> 0]

DesignSim ==
    /\ dOut.kind = "none"
    /\ dOut' = [kind |-> "SIM", codedLevels |-> <<>>,
                runs |-> buildSimDesign(dIn.factors, dIn.seed, dIn.size)]
    /\ UNCHANGED <<dIn, doe, recipeIds, configs, meta, runs, resp, prior, qual, access>>

DesignFfa ==
    /\ dOut.kind = "none"
    /\ dOut' = [kind |-> "FFA", codedLevels |-> <<>>,
                runs |-> buildFfaDesign(dIn.factors, dIn.seed, dIn.size)]
    /\ UNCHANGED <<dIn, doe, recipeIds, configs, meta, runs, resp, prior, qual, access>>

DesignBbd ==
    /\ dOut.kind = "none"
    /\ LET built == buildBbdDesign(dIn.factors, dIn.seed, dIn.size)
       IN dOut' = [kind |-> "BBD", codedLevels |-> built.codedLevels, runs |-> built.runs]
    /\ UNCHANGED <<dIn, doe, recipeIds, configs, meta, runs, resp, prior, qual, access>>

DesignScreen ==
    /\ dOut.kind = "none"
    /\ dOut' = [kind |-> "SCREEN", codedLevels |-> <<>>,
                runs |-> buildScreenDesign(dIn.factors, dIn.seed, dIn.size)]
    /\ UNCHANGED <<dIn, doe, recipeIds, configs, meta, runs, resp, prior, qual, access>>

----------------------------------------------------------------------------
(* The experiment of Spec: its id and its INPUT parameter definitions *)

ExperimentId == 1

\* the id of the DOE study of Spec
DoeId == 1

InputParams == {1, 2, 3}

ParamCode(p) == IF p = 1 THEN "barrel_zone5" ELSE IF p = 2 THEN "inj_speed" ELSE "v_to_p_transfer"

\* the ids of a set of parameters in ascending order
RECURSIVE AscendingSeq(_)
AscendingSeq(S) ==
    IF S = {} THEN <<>>
    ELSE LET m == CHOOSE x \in S : \A y \in S : x <= y
         IN <<m>> \o AscendingSeq(S \ {m})

\* listParamDefinitionsByKind(db, experimentId, "INPUT")
listInputParams == AscendingSeq(InputParams)

\* listParamConfigs(db, experimentId, doeId): the stored rows
listParamConfigs(cfgs) == [i \in 1..Cardinality(DOMAIN cfgs) |-> cfgs[AscendingSeq(DOMAIN cfgs)[i]]]

----------------------------------------------------------------------------
(* services/experiments_service.ts *)

DefaultRow(p, mode, lo, hi, list, levelCount) ==
    [param_def_id |-> p, active |-> 1, mode |-> mode, fixed_value_real |-> Null,
     range_min_real |-> IF mode = "RANGE" THEN lo ELSE Null,
     range_max_real |-> IF mode = "RANGE" THEN hi ELSE Null,
     list_json |-> IF mode = "LIST" THEN <<list>> ELSE <<>>,
     level_count |-> levelCount]

\* getDefaultActiveFactors(designType), by parameter code
getDefaultActiveFactors(designType) ==
    IF designType = "BBD" THEN
        [c \in {"barrel_zone5", "inj_speed", "v_to_p_transfer"} |->
            IF c = "barrel_zone5" THEN [mode |-> "RANGE", lo |-> 80, hi |-> 120, list |-> <<>>, levelCount |-> 3]
            ELSE IF c = "inj_speed" THEN [mode |-> "RANGE", lo |-> 20, hi |-> 50, list |-> <<>>, levelCount |-> 3]
            ELSE [mode |-> "RANGE", lo |-> 92, hi |-> 98, list |-> <<>>, levelCount |-> 3]]
    ELSE IF designType = "FFA" THEN
        [c \in {"moisture_pct", "inj_speed", "hold_time"} |->
            IF c = "moisture_pct" THEN [mode |-> "LIST", lo |-> Null, hi |-> Null, list |-> <<0, 1, 2>>, levelCount |-> 3]
            ELSE IF c = "inj_speed" THEN [mode |-> "LIST", lo |-> Null, hi |-> Null, list |-> <<25, 40, 60>>, levelCount |-> 3]
            ELSE [mode |-> "LIST", lo |-> Null, hi |-> Null, list |-> <<2, 5, 8>>, levelCount |-> 3]]
    ELSE IF designType = "SIM" THEN
        [c \in {"barrel_zone5", "inj_speed"} |->
            IF c = "barrel_zone5" THEN [mode |-> "RANGE", lo |-> 80, hi |-> 120, list |-> <<>>, levelCount |-> 2]
            ELSE [mode |-> "LIST", lo |-> Null, hi |-> Null, list |-> <<25, 40, 60>>, levelCount |-> 3]]
    ELSE
        [c \in {"mold_temp", "inj_speed", "hold_time", "hold_press", "v_to_p_transfer",
                "cooling_time", "back_pressure", "nozzle_temp"} |->
            IF c = "mold_temp" THEN [mode |-> "RANGE", lo |-> 40, hi |-> 120, list |-> <<>>, levelCount |-> 2]
            ELSE IF c = "inj_speed" THEN [mode |-> "RANGE", lo |-> 25, hi |-> 60, list |-> <<>>, levelCount |-> 2]
            ELSE IF c = "hold_time" THEN [mode |-> "RANGE", lo |-> 2, hi |-> 8, list |-> <<>>, levelCount |-> 2]
            ELSE IF c = "hold_press" THEN [mode |-> "RANGE", lo |-> 200, hi |-> 400, list |-> <<>>, levelCount |-> 2]
            ELSE IF c = "v_to_p_transfer" THEN [mode |-> "RANGE", lo |-> 92, hi |-> 98, list |-> <<>>, levelCount |-> 2]
            ELSE IF c = "cooling_time" THEN [mode |-> "RANGE", lo |-> 10, hi |-> 25, list |-> <<>>, levelCount |-> 2]
            ELSE IF c = "back_pressure" THEN [mode |-> "RANGE", lo |-> 20, hi |-> 80, list |-> <<>>, levelCount |-> 2]
            ELSE [mode |-> "RANGE", lo |-> 150, hi |-> 175, list |-> <<>>, levelCount |-> 2]]

\* createDoeWithDefaults: the param_configs rows it upserts
createDoeWithDefaults(designType) ==
    LET defaults == getDefaultActiveFactors(designType)
        found == {p \in InputParams : ParamCode(p) \in DOMAIN defaults}
    IN [p \in found |->
          LET f == defaults[ParamCode(p)]
          IN DefaultRow(p, f.mode, f.lo, f.hi, f.list, f.levelCount)]

\* JSON.parse(config.list_json) of a non-null list_json
JsonParseList(list_json) == list_json[1]

configToFactor(config, param) ==
    [paramDefId |-> param,
     mode |-> config.mode,
     rangeMin |-> config.range_min_real,
     rangeMax |-> config.range_max_real,
     list |-> IF config.list_json # <<>> THEN <<JsonParseList(config.list_json)>> ELSE <<>>,
     levelCount |-> config.level_count,
     fixedValue |-> config.fixed_value_real]

IsActiveRow(config) == config.active = 1 /\ config.param_def_id \in InputParams

\* activeFactors.map(...): the factor configs handed to the builder
FactorConfigsOf(d, cfgs) ==
    LET active == SelectSeq(listParamConfigs(cfgs), IsActiveRow)
    IN [i \in 1..Len(active) |->
          IF d.design_type = "BBD" /\ active[i].mode = "RANGE"
          THEN configToFactor([active[i] EXCEPT !.level_count = 3], active[i].param_def_id)
          ELSE configToFactor(active[i], active[i].param_def_id)]

\* the if / else-if chain on doe.design_type
DesignOf(d, factorConfigs) ==
    IF d.design_type = "SIM" THEN
        [runs |-> buildSimDesign(factorConfigs, d.seed, d.max_runs),
         design |-> "SIM", codedLevels |-> <<>>]
    ELSE IF d.design_type = "FFA" THEN
        [runs |-> buildFfaDesign(factorConfigs, d.seed, d.max_runs),
         design |-> "FFA", codedLevels |-> <<>>]
    ELSE IF d.design_type = "BBD" THEN
        LET built == buildBbdDesign(factorConfigs, d.seed, d.center_points)
        IN [runs |-> built.runs, design |-> "BBD", codedLevels |-> built.codedLevels]
    ELSE
        [runs |-> buildScreenDesign(factorConfigs, d.seed, d.max_runs),
         design |-> "SCREEN_SAMPLE", codedLevels |-> <<>>]

deriveFallbackValue(cfgs, p) ==
    IF p \notin DOMAIN cfgs THEN Null
    ELSE LET config == cfgs[p] IN
        IF config.mode = "FIXED" THEN config.fixed_value_real
        ELSE IF config.mode = "RANGE" THEN
            IF config.range_min_real = Null \/ config.range_max_real = Null THEN Null
            ELSE (config.range_min_real + config.range_max_real) \div 2
        ELSE IF config.mode = "LIST" THEN
            IF config.list_json = <<>> THEN Null
            ELSE IF Len(JsonParseList(config.list_json)) > 0
                 THEN JsonParseList(config.list_json)[1] ELSE Null
        ELSE Null

\* run.values[paramDefId], +Infinity when it is not a finite number
SortValue(run, paramDefId) ==
    IF paramDefId \in DOMAIN run.values /\ IsFinite(run.values[paramDefId])
    THEN [inf |-> FALSE, v |-> run.values[paramDefId]]
    ELSE [inf |-> TRUE, v |-> 0]

\* the comparator without the index tie-break kept in the builder's order
SortsBeforeTiesReversed(a, b, paramDefId) ==
    LET aRaw == IF paramDefId \in DOMAIN a.run.values THEN a.run.values[paramDefId] ELSE NaN
        bRaw == IF paramDefId \in DOMAIN b.run.values THEN b.run.values[paramDefId] ELSE NaN
    IN IF IsFinite(aRaw) /\ IsFinite(bRaw) /\ aRaw # bRaw THEN aRaw < bRaw
       ELSE IF IsFinite(aRaw) # IsFinite(bRaw) THEN IsFinite(aRaw)
       ELSE a.idx > b.idx

\* the comparator of indexed.sort: a before b
SortsBefore(a, b, paramDefId) ==
    LET aVal == SortValue(a.run, paramDefId)
        bVal == SortValue(b.run, paramDefId)
    IN IF aVal # bVal
       THEN (~aVal.inf /\ (bVal.inf \/ aVal.v < bVal.v))
       ELSE a.idx < b.idx

RECURSIVE InsertIndexed(_, _, _)
InsertIndexed(item, sorted, paramDefId) ==
    IF sorted = <<>> THEN <<item>>
    ELSE IF SortsBefore(item, Head(sorted), paramDefId) THEN <<item>> \o sorted
    ELSE <<Head(sorted)>> \o InsertIndexed(item, Tail(sorted), paramDefId)

RECURSIVE SortIndexed(_, _, _)
SortIndexed(indexed, n, paramDefId) ==
    IF n = 0 THEN <<>>
    ELSE InsertIndexed(indexed[n], SortIndexed(indexed, n - 1, paramDefId), paramDefId)

applyNonRandomizedParamOrder(designRuns, paramDefId) ==
    LET indexed == [i \in 1..Len(designRuns) |-> [run |-> designRuns[i], idx |-> i]]
        sorted == SortIndexed(indexed, Len(indexed), paramDefId)
    IN [i \in 1..Len(sorted) |-> sorted[i].run]

\* Object.entries(values): integer keys enumerate in ascending order
ObjectEntries(values) ==
    LET keys == AscendingSeq(DOMAIN values)
    IN [i \in 1..Len(keys) |-> <<keys[i], values[keys[i]]>>]

\* entries.sort((a, b) => Number(a[0]) - Number(b[0]))
RECURSIVE InsertEntry(_, _)
InsertEntry(e, sorted) ==
    IF sorted = <<>> THEN <<e>>
    ELSE IF e[1] < Head(sorted)[1] THEN <<e>> \o sorted
    ELSE <<Head(sorted)>> \o InsertEntry(e, Tail(sorted))

RECURSIVE SortEntries(_, _)
SortEntries(entries, n) ==
    IF n = 0 THEN <<>> ELSE InsertEntry(entries[n], SortEntries(entries, n - 1))

\* JSON.stringify({ values: entries, recipe_id }): the text, as its tokens
JsonStringifyPayload(payload) ==
    <<"values">> \o [i \in 1..Len(payload.values) |-> payload.values[i]]
                 \o <<"recipe_id", payload.recipe_id>>

\* lib/hash.js: a digest that is a function of the text and separates the
\* texts of the model
stableHash(text) == [digest |-> text]

\* the key with the recipe left out of the payload
buildReplicateKeyNoRecipe(values, recipeId, includeRecipe) ==
    LET entries == SortEntries(ObjectEntries(values), Len(ObjectEntries(values)))
    IN stableHash(JsonStringifyPayload([values |-> entries, recipe_id |-> Null]))

buildReplicateKey(values, recipeId, includeRecipe) ==
    LET entries == SortEntries(ObjectEntries(values), Len(ObjectEntries(values)))
        payload == [values |-> entries,
                    recipe_id |-> IF includeRecipe THEN recipeId ELSE Null]
    IN stableHash(JsonStringifyPayload(payload))

\* String(n) for n >= 0, as its decimal digits
RECURSIVE DecimalDigits(_)
DecimalDigits(n) == IF n < 10 THEN <<n>> ELSE DecimalDigits(n \div 10) \o <<n % 10>>

\* text.padStart(3, "0")
RECURSIVE PadStart3(_)
PadStart3(digits) == IF Len(digits) >= 3 THEN digits ELSE PadStart3(<<0>> \o digits)

\* `E${experimentId}-R${String(runOrder).padStart(3, "0")}`
RunCode(experimentId, runOrder) ==
    [prefix |-> "E", experiment |-> experimentId, sep |-> "-R",
     number |-> PadStart3(DecimalDigits(runOrder))]

\* recipeBlock and recipeList
RecipeBlock(d, recipes) == d.recipe_as_block = 1 /\ Len(recipes) > 0

\* one pass per linked recipe whether or not the recipes are blocks
RecipeListAlwaysBlocked(d, recipes) ==
    IF Len(recipes) > 0 THEN recipes ELSE <<Null>>

RecipeList(d, recipes) ==
    IF RecipeBlock(d, recipes) THEN recipes
    ELSE IF Len(recipes) = 1 THEN <<recipes[1]>>
    ELSE <<Null>>

\* the body of the innermost loop: the run row and its input run_values
RunRow(d, cfgs, recipes, recipeId, baseRun, r, runOrder) ==
    [doe_id |-> DoeId,
     run_order |-> runOrder,
     run_code |-> RunCode(ExperimentId, runOrder),
     recipe_id |-> recipeId,
     replicate_key |-> buildReplicateKey(baseRun.values, recipeId, RecipeBlock(d, recipes)),
     replicate_index |-> r + 1,
     done |-> 0,
     exclude_from_analysis |-> 0,
     values |-> [p \in InputParams |->
        IF p \in DOMAIN baseRun.values /\ baseRun.values[p] # Null
        THEN baseRun.values[p]
        ELSE deriveFallbackValue(cfgs, p)]]

\* the replicate loop without runOrder += 1
RECURSIVE ReplicateLoopNoIncrement(_, _, _, _, _, _, _)
ReplicateLoopNoIncrement(d, cfgs, recipes, recipeId, baseRun, r, runOrder) ==
    IF ~(r < d.replicate_count) THEN <<>>
    ELSE <<RunRow(d, cfgs, recipes, recipeId, baseRun, r, runOrder)>>
         \o ReplicateLoopNoIncrement(d, cfgs, recipes, recipeId, baseRun, r + 1, runOrder)

\* for (let r = 0; r < doe.replicate_count; r += 1): the rows pushed, runOrder
\* being the counter's value on entry
RECURSIVE ReplicateLoop(_, _, _, _, _, _, _)
ReplicateLoop(d, cfgs, recipes, recipeId, baseRun, r, runOrder) ==
    IF ~(r < d.replicate_count) THEN <<>>
    ELSE <<RunRow(d, cfgs, recipes, recipeId, baseRun, r, runOrder)>>
         \o ReplicateLoop(d, cfgs, recipes, recipeId, baseRun, r + 1, runOrder + 1)

\* for (const baseRun of designRuns)
RECURSIVE BaseRunLoop(_, _, _, _, _, _, _)
BaseRunLoop(d, cfgs, recipes, recipeId, designRuns, b, runOrder) ==
    IF b > Len(designRuns) THEN <<>>
    ELSE LET rows == ReplicateLoop(d, cfgs, recipes, recipeId, designRuns[b], 0, runOrder)
         IN rows \o BaseRunLoop(d, cfgs, recipes, recipeId, designRuns, b + 1,
                                runOrder + Len(rows))

\* for (const recipeId of recipeList)
RECURSIVE RecipeLoop(_, _, _, _, _, _, _)
RecipeLoop(d, cfgs, recipes, recipeList, designRuns, i, runOrder) ==
    IF i > Len(recipeList) THEN <<>>
    ELSE LET rows == BaseRunLoop(d, cfgs, recipes, recipeList[i], designRuns, 1, runOrder)
         IN rows \o RecipeLoop(d, cfgs, recipes, recipeList, designRuns, i + 1,
                               runOrder + Len(rows))

\* parseDesignMetadata(getDesignMetadata(...)).non_randomized_param_id, when a number
NonRandomizedParamId(m) == IF m.exists THEN m.non_randomized_param_id ELSE Null

\* designRuns after the optional non-randomized re-sort
DesignRunsOf(d, cfgs, m) ==
    LET design == DesignOf(d, FactorConfigsOf(d, cfgs))
        nonRandomizedParamId == NonRandomizedParamId(m)
    IN IF nonRandomizedParamId # Null /\ nonRandomizedParamId # 0
       THEN applyNonRandomizedParamOrder(design.runs, nonRandomizedParamId)
       ELSE design.runs

\* generateRuns(db, experimentId, doeId): the rows it inserts and the metadata it writes
generateRuns(d, cfgs, recipes, m) ==
    LET factorConfigs == FactorConfigsOf(d, cfgs)
        design == DesignOf(d, factorConfigs)
        designRuns == DesignRunsOf(d, cfgs, m)
        runsToInsert == RecipeLoop(d, cfgs, recipes, RecipeList(d, recipes), designRuns, 1, 1)
    IN [runs |-> runsToInsert,
        meta |-> [exists |-> TRUE,
                  non_randomized_param_id |-> NonRandomizedParamId(m),
                  design |-> design.design,
                  factors |-> factorConfigs,
                  codedLevels |-> design.codedLevels]]

\* repos/runs_repo: DELETE of the runs (and their values) of the DOE
deleteRunsForExperiment(rs, doeId) == SelectSeq(rs, LAMBDA row : row.doe_id # doeId)

\* repos/runs_repo: INSERT of the run rows with their values
insertRuns(rs, runsToInsert) == rs \o runsToInsert

\* repos/experiments_repo: the blob replaces the stored one (UPDATE or INSERT)
upsertDesignMetadata(m, jsonBlob) == jsonBlob

\* the statements that fail by raising while generateRuns stores its result
StoreFailures == {"none", "insertRuns", "upsertDesignMetadata"}

\* the stored runs with the delete left out
StoredRunsNoDelete(rs, runsToInsert, failure) ==
    IF failure = "insertRuns" THEN rs ELSE insertRuns(rs, runsToInsert)

\* the last three statements of generateRuns: deleteRunsForExperiment,
\* insertRuns, upsertDesignMetadata, one after the other with no transaction
\* around them; a statement that raises leaves what ran before it in place.
\* The runs stored when `failure` raises
StoredRuns(rs, runsToInsert, failure) ==
    IF failure = "insertRuns" THEN deleteRunsForExperiment(rs, DoeId)
    ELSE insertRuns(deleteRunsForExperiment(rs, DoeId), runsToInsert)

\* the design metadata stored when `failure` raises
StoredMeta(m, jsonBlob, failure) ==
    IF failure = "none" THEN upsertDesignMetadata(m, jsonBlob) ELSE m

----------------------------------------------------------------------------
(* routes/experiments.ts *)

RECURSIVE Pow2(_)
Pow2(n) == IF n = 0 THEN 1 ELSE 2 * Pow2(n - 1)

\* levels.reduce((access, val) => access * Math.max(val, 1), 1)
RECURSIVE ProductMax1(_, _)
ProductMax1(counts, n) ==
    IF n = 0 THEN 1 ELSE ProductMax1(counts, n - 1) * Max2(counts[n], 1)

\* a || b on numbers
OrElse(a, b) == IF a = 0 \/ a = Null \/ a = NaN THEN b ELSE a

PreviewLevelCount(config) ==
    IF config.mode = "LIST"
    THEN (IF config.list_json # <<>> THEN Len(JsonParseList(config.list_json)) ELSE 0)
    ELSE IF config.mode = "RANGE" THEN (IF config.level_count = 3 THEN 3 ELSE 2)
    ELSE 1

PreviewThreeLevelFlag(experiment, config) ==
    IF config.mode = "LIST"
    THEN (IF config.list_json # <<>> THEN Len(JsonParseList(config.list_json)) ELSE 0) = 3
    ELSE IF config.mode = "RANGE" THEN
        IF experiment.design_type = "BBD"
        THEN IsFinite(config.range_min_real) /\ IsFinite(config.range_max_real)
        ELSE config.level_count = 3
    ELSE FALSE

BbdWarning == "BBD needs at least 3 factors with 3 levels."

buildRunPreview(experiment, inputParams, cfgs, recipes) ==
    LET withConfig == SelectSeq(inputParams, LAMBDA p : p \in DOMAIN cfgs /\ cfgs[p].active = 1)
        activeConfigs == [i \in 1..Len(withConfig) |-> cfgs[withConfig[i]]]
        levelCounts == [i \in 1..Len(activeConfigs) |-> PreviewLevelCount(activeConfigs[i])]
        threeLevel == {i \in 1..Len(activeConfigs) :
                         PreviewThreeLevelFlag(experiment, activeConfigs[i])}
        bbdK == Cardinality(threeLevel)
        k == IF experiment.design_type = "BBD" THEN bbdK ELSE 0
        baseRuns ==
            IF experiment.design_type \in {"SIM", "FFA"} THEN
                (IF Len(levelCounts) > 0 THEN ProductMax1(levelCounts, Len(levelCounts)) ELSE 0)
            ELSE IF experiment.design_type = "BBD" THEN
                (IF bbdK >= 3
                 THEN (4 * (bbdK * (bbdK - 1))) \div 2 + OrElse(experiment.center_points, 0)
                 ELSE 0)
            ELSE
                LET fullCombos == IF Len(levelCounts) > 0 THEN Pow2(Len(levelCounts)) ELSE 0
                IN Min2(OrElse(experiment.max_runs, fullCombos), fullCombos)
        recipeMultiplier ==
            IF experiment.recipe_as_block = 1 /\ Len(recipes) > 0 THEN Len(recipes) ELSE 1
        replicateMultiplier == Max2(OrElse(experiment.replicate_count, 1), 1)
    IN [totalRuns |-> baseRuns * recipeMultiplier * replicateMultiplier,
        baseRuns |-> baseRuns,
        recipeMultiplier |-> recipeMultiplier,
        replicateMultiplier |-> replicateMultiplier,
        warning |-> IF experiment.design_type = "BBD" /\ bbdK < 3 THEN BbdWarning ELSE "",
        k |-> k]

\* the refusal with the threshold k < 2
GenerateRefusedBelowTwo(d, runPreview) == d.design_type = "BBD" /\ runPreview.k < 2

\* POST .../generate: if (doe.design_type === "BBD" && runPreview.k < 3) refuse
GenerateRefused(d, runPreview) == d.design_type = "BBD" /\ runPreview.k < 3

NoResp == [kind |-> "none", message |-> "", totalRuns |-> 0, inserted |-> 0]

\* POST .../generate, `failures` being the statements of generateRuns that may
\* raise in this request
GenerateRequest(failures) ==
    LET runPreview == buildRunPreview(doe, listInputParams, configs, recipeIds)
    IN IF GenerateRefused(doe, runPreview)
       THEN /\ resp' = [kind |-> "refused",
                        message |-> IF runPreview.warning # "" THEN runPreview.warning
                                    ELSE BbdWarning,
                        totalRuns |-> runPreview.totalRuns, inserted |-> 0]
            /\ UNCHANGED <<dIn, dOut, doe, recipeIds, configs, meta, runs, qual, access>>
       ELSE \E failure \in failures :
            LET generated == generateRuns(doe, configs, recipeIds, meta)
            IN /\ runs' = StoredRuns(runs, generated.runs, failure)
               /\ meta' = StoredMeta(meta, generated.meta, failure)
               /\ resp' = [kind |-> IF failure = "none" THEN "generated" ELSE "error",
                           message |-> IF failure = "none" THEN "" ELSE failure,
                           totalRuns |-> runPreview.totalRuns,
                           inserted |-> Len(generated.runs)]
               /\ UNCHANGED <<dIn, dOut, doe, recipeIds, configs, qual, access>>

\* the generate request when every statement succeeds
Generate == GenerateRequest({"none"}) /\ UNCHANGED prior

\* the roles of the requesting user
Roles == {"engineer", "operator", "viewer"}

\* POST /experiments/:id/runs/:runId (saveRun), no analysis field being defined:
\* the done and exclude flags of the run
SaveRun ==
    \E role \in Roles, done \in {0, 1}, exclude \in {0, 1} :
        /\ Len(runs) > 0
        /\ IF role \notin {"admin", "manager", "engineer", "operator"}
              \/ (exclude = 1 /\ role \notin {"admin", "manager", "engineer"})
           THEN /\ resp' = [NoResp EXCEPT !.kind = "forbidden"]
                /\ UNCHANGED runs
           ELSE /\ runs' = [runs EXCEPT ![1].done = done,
                                        ![1].exclude_from_analysis = exclude]
                /\ resp' = [NoResp EXCEPT !.kind = "run-saved"]
        /\ UNCHANGED <<dIn, dOut, doe, recipeIds, configs, meta, prior, qual, access>>

\* what a generate request found stored: nothing, runs without a flag, or
\* runs of which one carries a flag
NoPrior == "none"

\* the generate request with the storing statements free to raise, the runs it
\* found being recorded
Regenerate ==
    /\ GenerateRequest(StoreFailures)
    /\ prior' = IF resp'.kind = "refused" THEN prior
                ELSE IF runs = <<>> THEN "empty"
                ELSE IF \E n \in 1..Len(runs) :
                          runs[n].done = 1 \/ runs[n].exclude_from_analysis = 1
                     THEN "flagged"
                     ELSE "runs"

\* the fields of one parameter in the body of POST .../configs
FormKinds(p) ==
    IF p = 1 THEN {"off", "range2", "rangeNoMax"}
    ELSE IF p = 2 THEN {"off", "list3"}
    ELSE {"off", "range3"}

FormEntry(p, kind) ==
    [active |-> kind # "off",
     mode |-> IF kind \in {"range2", "range3", "rangeNoMax"} THEN "RANGE"
              ELSE IF kind = "list3" THEN "LIST"
              ELSE IF kind = "fixed" THEN "FIXED"
              ELSE "",
     min |-> IF kind \in {"range2", "range3", "rangeNoMax"} THEN 10 * p ELSE NaN,
     max |-> IF kind \in {"range2", "range3"} THEN 10 * p + 4 ELSE NaN,
     values |-> IF kind = "list3" THEN <<10 * p + 5, 10 * p + 6, 10 * p + 7>>
                ELSE IF kind = "fixed" THEN <<10 * p + 1>>
                ELSE <<>>,
     levels |-> IF kind = "range3" THEN 3 ELSE IF kind = "range2" THEN 2 ELSE Null]

Forms == {[p \in InputParams |-> FormEntry(p, ks[p])] :
            ks \in {f \in [InputParams -> {"off", "range2", "range3", "rangeNoMax", "list3", "fixed"}] :
                      \A p \in InputParams : f[p] \in FormKinds(p)}}

\* the row pushed to `updates` for an active parameter
ConfigUpdate(d, cfgs, p, entry) ==
    LET mode == IF entry.mode # "" THEN entry.mode
                ELSE IF p \in DOMAIN cfgs THEN cfgs[p].mode ELSE "FIXED"
        useValues == mode = "RANGE" /\ (~IsFinite(entry.min) \/ ~IsFinite(entry.max))
                       /\ Len(entry.values) >= 2
        rangeMin == IF useValues THEN entry.values[1] ELSE entry.min
        rangeMax == IF useValues THEN entry.values[2] ELSE entry.max
        levelCount == IF entry.levels # Null /\ entry.levels # 0 THEN entry.levels
                      ELSE IF p \in DOMAIN cfgs /\ cfgs[p].level_count # Null
                              /\ cfgs[p].level_count # 0 THEN cfgs[p].level_count
                      ELSE 2
        fixed == IF mode = "FIXED" /\ Len(entry.values) > 0 THEN entry.values[1] ELSE NaN
        list == IF mode = "LIST" THEN entry.values ELSE <<>>
    IN [param_def_id |-> p,
        active |-> 1,
        mode |-> mode,
        fixed_value_real |-> IF IsFinite(fixed) THEN fixed ELSE Null,
        range_min_real |-> IF mode = "RANGE" /\ IsFinite(rangeMin) THEN rangeMin ELSE Null,
        range_max_real |-> IF mode = "RANGE" /\ IsFinite(rangeMax) THEN rangeMax ELSE Null,
        list_json |-> IF Len(list) > 0 THEN <<list>> ELSE <<>>,
        level_count |-> IF d.design_type = "BBD" /\ mode = "RANGE" THEN 3
                        ELSE IF mode = "RANGE" THEN levelCount
                        ELSE Null]

\* the BBD checks that push to `errors`
ConfigError(d, cfgs, p, entry) ==
    LET row == ConfigUpdate(d, cfgs, p, entry)
        listLen == IF row.mode = "LIST" THEN Len(entry.values) ELSE 0
    IN /\ d.design_type = "BBD"
       /\ entry.active
       /\ \/ row.mode = "FIXED"
          \/ row.mode = "RANGE" /\ (row.range_min_real = Null \/ row.range_max_real = Null)
          \/ row.mode = "LIST" /\ listLen # 3

\* POST /experiments/:id/doe/:doeId/configs, the body drawn from `forms` and
\* its non_randomized_param_id from `selections`
SaveConfigsRequest(forms, selections) ==
    \E form \in forms, selected \in selections :
        IF \E p \in InputParams : ConfigError(doe, configs, p, form[p])
        THEN /\ resp' = [NoResp EXCEPT !.kind = "rejected", !.message = "BBD"]
             /\ UNCHANGED <<dIn, dOut, doe, recipeIds, configs, meta, runs, prior, qual, access>>
        ELSE LET activeSet == {p \in InputParams : form[p].active}
                 nonRandomizedParamId == IF selected # Null /\ selected \in activeSet
                                         THEN selected ELSE Null
             IN /\ configs' = [p \in activeSet |-> ConfigUpdate(doe, configs, p, form[p])]
                /\ meta' = [meta EXCEPT !.exists = TRUE,
                                        !.non_randomized_param_id = nonRandomizedParamId]
                /\ resp' = [NoResp EXCEPT !.kind = "saved"]
                /\ UNCHANGED <<dIn, dOut, doe, recipeIds, runs, prior, qual, access>>

SaveConfigs == SaveConfigsRequest(Forms, {Null, 2})

----------------------------------------------------------------------------
(* Qualification: the numbers of run values and step settings *)

RECURSIVE Gcd(_, _)
Gcd(a, b) == IF b = 0 THEN a ELSE Gcd(b, a % b)

Abs(x) == IF x < 0 THEN -x ELSE x

\* the number n / d, kept in lowest terms with a positive denominator
Num(n, d) ==
    LET g == Gcd(Abs(n), Abs(d))
        s == IF d < 0 THEN -1 ELSE 1
    IN [k |-> "num", n |-> (s * n) \div g, d |-> (s * d) \div g]

QNull == [k |-> "null", n |-> 0, d |-> 1]

QNaN == [k |-> "nan", n |-> 0, d |-> 1]

\* the text %machineId:paramId%
Token(machineId, paramId) == [k |-> "token", n |-> machineId, d |-> paramId]

\* a text that does not start with a number, such as "abc"
QText == [k |-> "text", n |-> 0, d |-> 1]

\* Number.isFinite(v)
QIsFinite(v) == v.k = "num"

\* v used as a condition: null, NaN and 0 are falsy
Truthy(v) == v.k = "num" /\ v.n # 0

Add(a, b) == Num(a.n * b.d + b.n * a.d, a.d * b.d)
Sub(a, b) == Num(a.n * b.d - b.n * a.d, a.d * b.d)
Mul(a, b) == Num(a.n * b.n, a.d * b.d)
Div(a, b) == Num(a.n * b.d, a.d * b.n)
AbsQ(a) == Num(Abs(a.n), a.d)
Less(a, b) == a.n * b.d < b.n * a.d

RECURSIVE SumQ(_)
SumQ(s) == IF s = <<>> THEN Num(0, 1) ELSE Add(Head(s), SumQ(Tail(s)))

\* Math.max(...s) and Math.min(...s) of a non-empty list
RECURSIVE MaxQ(_)
MaxQ(s) ==
    IF Len(s) = 1 THEN s[1]
    ELSE LET m == MaxQ(Tail(s)) IN IF Less(m, Head(s)) THEN Head(s) ELSE m

RECURSIVE MinQ(_)
MinQ(s) ==
    IF Len(s) = 1 THEN s[1]
    ELSE LET m == MinQ(Tail(s)) IN IF Less(Head(s), m) THEN Head(s) ELSE m

\* parseNumber(raw): parseFloat of the trimmed text, NaN for null, "" and a
\* text that does not start with a number
parseNumber(raw) == IF raw.k = "num" THEN raw ELSE QNaN

----------------------------------------------------------------------------
(* services/qualification_service.ts: the steps, their fields and runs *)

\* the steps of QualSpec
QualSteps == {1, 2, 4}

\* listQualRuns(db, stepId): the run ids of the step by run_order
QualRunIds == <<1, 2>>

\* stepDefinitions[step].fields: the codes of the number and boolean fields, by id
StepFieldCodes(stepNumber) ==
    IF stepNumber = 1 THEN
        <<"inj_speed", "fill_time_s", "peak_inj_pressure_bar", "shear_rate_proxy", "rel_viscosity">>
    ELSE IF stepNumber = 2 THEN
        <<"cavity1_weight_g", "cavity2_weight_g", "cavity3_weight_g", "cavity4_weight_g",
          "cavity_weight_variation_pct">>
    ELSE IF stepNumber = 4 THEN
        <<"melt_temp_c", "hold_pressure_bar", "defect_short_shot", "defect_flash">>
    ELSE
        <<"hold_time_s", "part_weight_g">>

FieldCodeSet(stepNumber) == {StepFieldCodes(stepNumber)[i] : i \in 1..Len(StepFieldCodes(stepNumber))}

\* field.is_derived
IsDerived(code) == code \in {"shear_rate_proxy", "rel_viscosity", "cavity_weight_variation_pct"}

\* field.field_type
FieldType(code) == IF code \in {"defect_short_shot", "defect_flash"} THEN "boolean" ELSE "number"

\* parseCavityIndex(code), 0 standing for null
parseCavityIndex(code) ==
    IF code = "cavity1_weight_g" THEN 1
    ELSE IF code = "cavity2_weight_g" THEN 2
    ELSE IF code = "cavity3_weight_g" THEN 3
    ELSE IF code = "cavity4_weight_g" THEN 4
    ELSE 0

\* the machine parameters of the linked machine keyed machineId:paramId, each
\* with its value_text; none when the experiment has no machine
machineParamMap(machineId) ==
    IF machineId = Null THEN [t \in {} |-> QNull]
    ELSE [t \in {<<machineId, 5>>} |-> Num(2, 1)]

\* resolveSettingNumber reading a token without a matching parameter as 0
resolveSettingNumberTokenZero(raw, paramMap) ==
    IF raw.k = "null" THEN QNaN
    ELSE IF raw.k = "token" THEN
        IF <<raw.n, raw.d>> \in DOMAIN paramMap
        THEN parseNumber(paramMap[<<raw.n, raw.d>>])
        ELSE Num(0, 1)
    ELSE parseNumber(raw)

\* resolveSettingNumber(raw)
resolveSettingNumber(raw, paramMap) ==
    IF raw.k = "null" THEN QNaN
    ELSE IF raw.k = "token" THEN
        IF <<raw.n, raw.d>> \in DOMAIN paramMap
        THEN parseNumber(paramMap[<<raw.n, raw.d>>])
        ELSE QNaN
    ELSE parseNumber(raw)

\* the setting `key` of the stored settings_json, resolved; NaN when there is
\* no settings row
ResolvedSetting(settings, key, paramMap) ==
    IF settings = <<>> THEN QNaN ELSE resolveSettingNumber(settings[1][key], paramMap)

\* intensificationCoeff
IntensificationCoeff(settings, paramMap) ==
    LET resolved == ResolvedSetting(settings, "intensification_coeff", paramMap)
    IN IF QIsFinite(resolved) THEN resolved ELSE Num(1, 1)

\* getNumber(code): value?.value_real ?? null
getNumber(vals, code) == IF code \in DOMAIN vals THEN vals[code] ELSE QNull

\* setDerived(code, value) for a number field
setDerived(vals, code, value) ==
    IF code \notin DOMAIN vals \/ ~IsDerived(code) THEN vals
    ELSE [vals EXCEPT ![code] = IF QIsFinite(value) THEN value ELSE QNull]

\* step 1 with the intensification coefficient left out of rel_viscosity
Step1DerivedNoCoeff(vals, coeff) ==
    LET fill == getNumber(vals, "fill_time_s")
        peak == getNumber(vals, "peak_inj_pressure_bar")
        shearRate == IF fill # QNull /\ fill # Num(0, 1) THEN Div(Num(1, 1), fill) ELSE QNull
        withShear == IF shearRate # QNull
                     THEN setDerived(vals, "shear_rate_proxy", shearRate)
                     ELSE vals
    IN IF peak # QNull /\ shearRate # QNull
       THEN setDerived(withShear, "rel_viscosity", Mul(peak, fill))
       ELSE withShear

\* if (stepNumber === 1) of the run loop
Step1Derived(vals, coeff) ==
    LET fill == getNumber(vals, "fill_time_s")
        peak == getNumber(vals, "peak_inj_pressure_bar")
        shearRate == IF fill # QNull /\ fill # Num(0, 1) THEN Div(Num(1, 1), fill) ELSE QNull
        withShear == IF shearRate # QNull
                     THEN setDerived(vals, "shear_rate_proxy", shearRate)
                     ELSE vals
    IN IF peak # QNull /\ shearRate # QNull
       THEN setDerived(withShear, "rel_viscosity", Mul(Mul(peak, fill), coeff))
       ELSE withShear

\* the cavity weight codes with the derived variation field taken for one
CavityWeightCodesWithDerived(vals) ==
    SelectSeq(<<"cavity1_weight_g", "cavity2_weight_g", "cavity3_weight_g", "cavity4_weight_g",
                "cavity_weight_variation_pct">>,
              LAMBDA code : code \in DOMAIN vals)

\* cavityWeightFields: the cavity weight codes of the step by cavity index
CavityWeightCodes(vals) ==
    SelectSeq(<<"cavity1_weight_g", "cavity2_weight_g", "cavity3_weight_g", "cavity4_weight_g">>,
              LAMBDA code : code \in DOMAIN vals /\ parseCavityIndex(code) # 0)

\* the reference weight with the target used for any number of cavities
ReferenceWeightAlwaysTarget(targetWeight, weights) ==
    IF Truthy(targetWeight) THEN targetWeight
    ELSE Div(SumQ(weights), Num(Len(weights), 1))

\* ref = targetWeight && weights.length < 3 ? targetWeight : avg
ReferenceWeight(targetWeight, weights) ==
    IF Truthy(targetWeight) /\ Len(weights) < 3 THEN targetWeight
    ELSE Div(SumQ(weights), Num(Len(weights), 1))

\* if (stepNumber === 2) of the run loop
Step2Derived(vals, settings, paramMap) ==
    LET codes == CavityWeightCodes(vals)
        weights == SelectSeq([i \in 1..Len(codes) |-> vals[codes[i]]], QIsFinite)
        resolved == ResolvedSetting(settings, "target_weight_g", paramMap)
        targetWeight == IF QIsFinite(resolved) THEN resolved ELSE QNull
    IN IF Len(weights) >= 1
       THEN LET ref == ReferenceWeight(targetWeight, weights)
                variation ==
                    IF Truthy(ref)
                    THEN Mul(MaxQ([i \in 1..Len(weights) |->
                                      AbsQ(Div(Sub(ref, weights[i]), ref))]),
                             Num(100, 1))
                    ELSE QNull
            IN setDerived(vals, "cavity_weight_variation_pct", variation)
       ELSE vals

\* the body of for (const run of runs)
RunDerived(stepNumber, vals, settings, paramMap) ==
    IF stepNumber = 1 THEN Step1Derived(vals, IntensificationCoeff(settings, paramMap))
    ELSE IF stepNumber = 2 THEN Step2Derived(vals, settings, paramMap)
    ELSE vals

\* numberFor(values, code) of buildStepSummary
numberFor(vals, code) == IF code \in DOMAIN vals THEN vals[code] ELSE QNull

\* boolFor(values, code)
boolFor(vals, code) == numberFor(vals, code) = Num(1, 1)

\* the loop of step 1 with a later run of equal viscosity taking the place of
\* the best so far
RECURSIVE BestViscosityTiesLast(_, _, _)
BestViscosityTiesLast(values, i, best) ==
    IF i > Len(values) THEN best
    ELSE LET inj == numberFor(values[i], "inj_speed")
             visc == numberFor(values[i], "rel_viscosity")
         IN IF inj = QNull \/ visc = QNull THEN BestViscosityTiesLast(values, i + 1, best)
            ELSE IF ~best.has \/ ~Less(best.viscosity, visc)
                 THEN BestViscosityTiesLast(values, i + 1,
                                            [has |-> TRUE, inj |-> inj, viscosity |-> visc])
                 ELSE BestViscosityTiesLast(values, i + 1, best)

\* step 1 of buildStepSummary: the loop over runValues from row i, best so far
RECURSIVE BestViscosity(_, _, _)
BestViscosity(values, i, best) ==
    IF i > Len(values) THEN best
    ELSE LET inj == numberFor(values[i], "inj_speed")
             visc == numberFor(values[i], "rel_viscosity")
         IN IF inj = QNull \/ visc = QNull THEN BestViscosity(values, i + 1, best)
            ELSE IF ~best.has \/ Less(visc, best.viscosity)
                 THEN BestViscosity(values, i + 1, [has |-> TRUE, inj |-> inj, viscosity |-> visc])
                 ELSE BestViscosity(values, i + 1, best)

\* steps 2 and 3 of buildStepSummary: the largest non-null value of `code`
RECURSIVE MaxOverRuns(_, _, _, _)
MaxOverRuns(values, code, i, maxSoFar) ==
    IF i > Len(values) THEN maxSoFar
    ELSE LET v == numberFor(values[i], code)
         IN IF v = QNull THEN MaxOverRuns(values, code, i + 1, maxSoFar)
            ELSE IF maxSoFar = QNull \/ Less(maxSoFar, v)
                 THEN MaxOverRuns(values, code, i + 1, v)
                 ELSE MaxOverRuns(values, code, i + 1, maxSoFar)

\* the points of step 4 with the defect flags not looked at
GoodPointsIgnoringDefects(values) ==
    SelectSeq([i \in 1..Len(values) |->
                  [temp |-> numberFor(values[i], "melt_temp_c"),
                   hold |-> numberFor(values[i], "hold_pressure_bar"),
                   shortShot |-> boolFor(values[i], "defect_short_shot"),
                   flash |-> boolFor(values[i], "defect_flash")]],
              LAMBDA row : row.temp # QNull /\ row.hold # QNull)

\* step 4 of buildStepSummary: the points without short shot or flash
GoodPoints(values) ==
    SelectSeq([i \in 1..Len(values) |->
                  [temp |-> numberFor(values[i], "melt_temp_c"),
                   hold |-> numberFor(values[i], "hold_pressure_bar"),
                   shortShot |-> boolFor(values[i], "defect_short_shot"),
                   flash |-> boolFor(values[i], "defect_flash")]],
              LAMBDA row : row.temp # QNull /\ row.hold # QNull /\ ~row.shortShot /\ ~row.flash)

\* the keys every summary starts with
SummaryHead(stepNumber) ==
    [key \in {"experiment_id", "step_number"} |->
        IF key = "experiment_id" THEN Num(ExperimentId, 1) ELSE Num(stepNumber, 1)]

\* the window keys of step 4
WindowSummary(goodPoints) ==
    LET temps == [i \in 1..Len(goodPoints) |-> goodPoints[i].temp]
        lowTemp == MinQ(temps)
        highTemp == MaxQ(temps)
        lowPoints == SelectSeq(goodPoints, LAMBDA p : p.temp = lowTemp)
        highPoints == SelectSeq(goodPoints, LAMBDA p : p.temp = highTemp)
        lowPressures == [i \in 1..Len(lowPoints) |-> lowPoints[i].hold]
        highPressures == [i \in 1..Len(highPoints) |-> highPoints[i].hold]
        lowMin == MinQ(lowPressures)
        lowMax == MaxQ(lowPressures)
        highMin == MinQ(highPressures)
        highMax == MaxQ(highPressures)
        two == Num(2, 1)
    IN [key \in {"window_low_temp", "window_high_temp", "window_low_pressure_min",
                 "window_low_pressure_max", "window_high_pressure_min",
                 "window_high_pressure_max", "window_center_temp",
                 "window_center_pressure"} |->
          IF key = "window_low_temp" THEN lowTemp
          ELSE IF key = "window_high_temp" THEN highTemp
          ELSE IF key = "window_low_pressure_min" THEN lowMin
          ELSE IF key = "window_low_pressure_max" THEN lowMax
          ELSE IF key = "window_high_pressure_min" THEN highMin
          ELSE IF key = "window_high_pressure_max" THEN highMax
          ELSE IF key = "window_center_temp" THEN Div(Add(lowTemp, highTemp), two)
          ELSE Div(Add(Div(Add(lowMin, lowMax), two), Div(Add(highMin, highMax), two)), two)]

\* step 5 of buildStepSummary: the runs with both hold_time_s and part_weight_g
GatePoints(values) ==
    SelectSeq([i \in 1..Len(values) |->
                  [hold |-> numberFor(values[i], "hold_time_s"),
                   weight |-> numberFor(values[i], "part_weight_g")]],
              LAMBDA row : row.hold # QNull /\ row.weight # QNull)

\* the place of point p in a list sorted by hold time: behind every point
\* whose hold time is not larger
RECURSIVE InsertByHold(_, _)
InsertByHold(sorted, p) ==
    IF sorted = <<>> THEN <<p>>
    ELSE IF Less(p.hold, Head(sorted).hold) THEN <<p>> \o sorted
    ELSE <<Head(sorted)>> \o InsertByHold(Tail(sorted), p)

\* the points left in run order
SortByHoldUnsorted(points) == points

\* points.sort((a, b) => a.hold - b.hold), a stable sort
RECURSIVE SortByHold(_)
SortByHold(points) ==
    IF points = <<>> THEN <<>>
    ELSE InsertByHold(SortByHold(SubSeq(points, 1, Len(points) - 1)), points[Len(points)])

\* for (let i = 1; i < points.length; i += 1) from the pair ending at place i
RECURSIVE GateSeal(_, _)
GateSeal(points, i) ==
    IF i > Len(points) THEN QNull
    ELSE LET prev == points[i - 1]
             curr == points[i]
         IN IF ~Truthy(prev.weight) THEN GateSeal(points, i + 1)
            ELSE IF ~Less(Num(1, 100), Div(AbsQ(Sub(curr.weight, prev.weight)), prev.weight))
                 THEN curr.hold
                 ELSE GateSeal(points, i + 1)

\* buildStepSummary(db, experimentId, stepId, stepNumber, fieldByCode)
buildStepSummary(stepNumber, values) ==
    IF stepNumber = 1 THEN
        LET best == BestViscosity(values, 1, [has |-> FALSE, inj |-> QNull, viscosity |-> QNull])
        IN SummaryHead(stepNumber) @@
           [key \in {"recommended_inj_speed"} |-> IF best.has THEN best.inj ELSE QNull]
    ELSE IF stepNumber = 2 THEN
        SummaryHead(stepNumber) @@
        [key \in {"max_cavity_imbalance_pct"} |->
            MaxOverRuns(values, "cavity_weight_variation_pct", 1, QNull)]
    ELSE IF stepNumber = 4 THEN
        LET goodPoints == GoodPoints(values)
        IN IF Len(goodPoints) >= 2
           THEN SummaryHead(stepNumber) @@ WindowSummary(goodPoints)
           ELSE SummaryHead(stepNumber)
    ELSE
        SummaryHead(stepNumber) @@
        [key \in {"gate_seal_time_s"} |-> GateSeal(SortByHold(GatePoints(values)), 2)]

\* the summary patched into the stored one instead of replacing it
upsertQualSummaryMerging(stored, summary) ==
    IF stored = <<>> THEN <<summary>> ELSE <<summary @@ stored[1]>>

\* repos/qual_repo.ts upsertQualSummary: the row of (experiment, step) gets
\* the new summary_json
upsertQualSummary(stored, summary) == <<summary>>

\* recomputeDerivedAndSummary(db, experimentId, stepId, stepNumber) on the
\* qualification state q
recomputeDerivedAndSummary(q) ==
    LET paramMap == machineParamMap(q.machine)
        values == [r \in DOMAIN q.values |->
                     RunDerived(q.step, q.values[r], q.settings, paramMap)]
        built == buildStepSummary(q.step, values)
        resolved == ResolvedSetting(q.settings, "recommended_inj_speed", paramMap)
        summary == IF q.step = 1 /\ q.settings # <<>> /\ QIsFinite(resolved)
                   THEN [built EXCEPT !["recommended_inj_speed"] = resolved]
                   ELSE built
    IN [q EXCEPT !.values = values, !.summary = upsertQualSummary(q.summary, summary)]

\* normalizeValue(fieldType, raw).value_real
normalizeValue(fieldType, raw) ==
    IF fieldType = "number"
    THEN (IF QIsFinite(parseNumber(raw)) THEN parseNumber(raw) ELSE QNull)
    ELSE (IF raw = Num(1, 1) THEN Num(1, 1) ELSE Num(0, 1))

\* saveQualRunValue(db, runId, fieldId, fieldType, rawValue)
saveQualRunValue(q, runId, code, fieldType, raw) ==
    [q EXCEPT !.values[runId][code] = normalizeValue(fieldType, raw)]

----------------------------------------------------------------------------
(* repos/qual_repo.ts: the runs of a step *)

\* the decimal digits of a natural number, the most significant first
RECURSIVE Digits(_)
Digits(n) == IF n < 10 THEN <<n>> ELSE Digits(n \div 10) \o <<n % 10>>

\* String(order).padStart(3, "0")
RECURSIVE padStart(_, _)
padStart(digits, targetLength) ==
    IF Len(digits) >= targetLength THEN digits ELSE padStart(<<0>> \o digits, targetLength)

\* `Q${stepNumber}-R${String(order).padStart(3, "0")}`
QualRunCode(stepNumber, order) == [q |-> Digits(stepNumber), r |-> padStart(Digits(order), 3)]

\* COALESCE(MAX(run_order), 0) over the runs of the step
RECURSIVE MaxRunOrderOf(_)
MaxRunOrderOf(qualRuns) ==
    IF qualRuns = <<>> THEN 0
    ELSE LET rest == MaxRunOrderOf(Tail(qualRuns))
         IN IF Head(qualRuns).run_order > rest THEN Head(qualRuns).run_order ELSE rest

\* the new runs numbered from the number of runs of the step
createQualRunsByCount(q, count) ==
    [q EXCEPT
        !.qual_runs = @ \o [i \in 1..count |->
                              [run_order |-> Len(q.qual_runs) + i,
                               run_code |-> QualRunCode(q.step, Len(q.qual_runs) + i),
                               done |-> 0, exclude_from_analysis |-> 0]],
        !.values = @ \o [i \in 1..count |-> [code \in q.fields |-> QNull]]]

\* createQualRuns(db, experimentId, stepId, count): the new runs have no value
\* row, which reads as null for every field
createQualRuns(q, count) ==
    [q EXCEPT
        !.qual_runs = @ \o [i \in 1..count |->
                              [run_order |-> MaxRunOrderOf(q.qual_runs) + i,
                               run_code |-> QualRunCode(q.step, MaxRunOrderOf(q.qual_runs) + i),
                               done |-> 0, exclude_from_analysis |-> 0]],
        !.values = @ \o [i \in 1..count |-> [code \in q.fields |-> QNull]]]

\* updateQualRunFlags(db, runId, done, exclude); no row of that id, no change
updateQualRunFlags(q, runId, done, exclude) ==
    IF runId \notin DOMAIN q.qual_runs THEN q
    ELSE [q EXCEPT !.qual_runs[runId].done = done,
                   !.qual_runs[runId].exclude_from_analysis = exclude]

\* a sequence without its element at place i
RemoveAt(seq, i) == SubSeq(seq, 1, i - 1) \o SubSeq(seq, i + 1, Len(seq))

\* DELETE FROM qual_run_values WHERE run_id = ?; DELETE FROM qual_runs WHERE id = ?
deleteQualRun(q, runId) ==
    [q EXCEPT !.qual_runs = RemoveAt(@, runId), !.values = RemoveAt(@, runId)]

\* DELETE FROM qual_run_values WHERE field_id = ?; DELETE FROM qual_fields WHERE id = ?
deleteQualField(q, code) ==
    [q EXCEPT !.fields = @ \ {code},
              !.values = [r \in DOMAIN @ |-> [c \in DOMAIN @[r] \ {code} |-> @[r][c]]]]

----------------------------------------------------------------------------
(* routes/qualification.ts *)

\* the value save with derived fields accepted
ValueSaveRejectedNever(code) == FALSE

\* if (field.is_derived) return res.status(400)
ValueSaveRejected(code) == IsDerived(code)

\* the raw values a value-save request carries for a field of a run: null (the
\* field cleared), a text that is no number, or a number
RawInputs(stepNumber, runId, code) ==
    IF IsDerived(code) THEN {Num(7, 1)}
    ELSE IF code = "inj_speed" THEN {Num(10 * runId, 1)}
    ELSE IF code = "fill_time_s" THEN
        IF runId = 1 THEN {QNull, QText, Num(0, 1), Num(2, 1)} ELSE {Num(4, 1)}
    ELSE IF code = "peak_inj_pressure_bar" THEN
        IF runId = 1 THEN {QNull, Num(100, 1)} ELSE {Num(40, 1), Num(50, 1)}
    ELSE IF code = "cavity1_weight_g" THEN {QNull, Num(10, 1)}
    ELSE IF code = "cavity2_weight_g" THEN IF runId = 1 THEN {QNull, Num(21, 2)} ELSE {QNull}
    ELSE IF code = "cavity3_weight_g" THEN IF runId = 1 THEN {QNull, Num(19, 2)} ELSE {QNull}
    ELSE IF code = "cavity4_weight_g" THEN {QNull}
    ELSE IF code = "melt_temp_c" THEN
        IF runId = 1 THEN {QNull, Num(200, 1)} ELSE {QNull, Num(200, 1), Num(220, 1)}
    ELSE IF code = "hold_pressure_bar" THEN {QNull, Num(300 + 50 * runId, 1)}
    ELSE IF code = "defect_short_shot" /\ runId = 2 THEN {QNull, Num(1, 1)}
    ELSE IF code = "hold_time_s" THEN
        IF runId = 1 THEN {QNull, Num(3, 1)}
        ELSE IF runId = 2 THEN {QNull, Num(1, 1), Num(3, 1)}
        ELSE {QNull, Num(2, 1)}
    ELSE IF code = "part_weight_g" THEN
        IF runId = 1 THEN {QNull, Num(102, 1)}
        ELSE IF runId = 2 THEN {QNull, Num(0, 1), Num(100, 1)}
        ELSE {QNull, Num(0, 1), Num(101, 1), Num(102, 1)}
    ELSE {QNull}

QualResp(kind, message) == [kind |-> kind, message |-> message, totalRuns |-> 0, inserted |-> 0]

\* what a successful save found stored as the summary of the step: no row, a
\* summary with the window keys of step 4, or one without
StoredSummaryKind(stored) ==
    IF stored = <<>> THEN NoPrior
    ELSE IF "window_low_temp" \in DOMAIN stored[1] THEN "window"
    ELSE "plain"

\* POST /qual-runs/:id/value for the field `code` of run `runId`
SaveQualValueOf(runId, code) ==
    \E role \in Roles, raw \in RawInputs(qual.step, runId, code) :
        /\ IF role \notin {"admin", "manager", "engineer", "operator"}
           THEN /\ resp' = QualResp("error", "Forbidden")
                /\ UNCHANGED qual
           ELSE IF ValueSaveRejected(code)
           THEN /\ resp' = QualResp("error", "Derived field")
                /\ UNCHANGED qual
           ELSE /\ qual' = recomputeDerivedAndSummary(
                              saveQualRunValue(qual, runId, code, FieldType(code), raw))
                /\ resp' = QualResp("ok", "")
        /\ prior' = IF resp'.kind = "ok" THEN StoredSummaryKind(qual.summary) ELSE prior
        /\ UNCHANGED <<dIn, dOut, doe, recipeIds, configs, meta, runs, access>>

\* POST /qual-runs/:id/value
SaveQualValue ==
    \E runId \in DOMAIN qual.values, code \in qual.fields :
        SaveQualValueOf(runId, code)

\* parseSettingValue(value) of the settings route
parseSettingValue(value) ==
    IF value.k \in {"null", "nan"} THEN QNull ELSE value

\* the fields of the body of a settings request that steps 1, 2 and 4 read
SettingsBodies(stepNumber) ==
    IF stepNumber = 1 THEN
        {[intensification_coeff |-> c, recommended_inj_speed |-> QNull, target_weight_g |-> QNull] :
            c \in {QNull, Num(2, 1), Token(1, 5), Token(1, 9), QText}}
        \cup
        {[intensification_coeff |-> QNull, recommended_inj_speed |-> r, target_weight_g |-> QNull] :
            r \in {Num(30, 1), Token(1, 9)}}
    ELSE IF stepNumber = 2 THEN
        {[intensification_coeff |-> QNull, recommended_inj_speed |-> QNull, target_weight_g |-> t] :
            t \in {QNull, Num(10, 1), Token(1, 5), Token(1, 9)}}
    ELSE
        {[intensification_coeff |-> QNull, recommended_inj_speed |-> QNull, target_weight_g |-> QNull]}

\* POST /experiments/:id/qualification/:step/settings
SaveQualSettings ==
    \E role \in Roles, body \in SettingsBodies(qual.step) :
        /\ IF role \notin {"admin", "manager", "engineer"}
           THEN /\ resp' = QualResp("error", "Forbidden")
                /\ UNCHANGED qual
           ELSE LET intensificationValue == parseSettingValue(body.intensification_coeff)
                    settings ==
                        [intensification_coeff |->
                            IF intensificationValue = QNull THEN Num(1, 1)
                            ELSE intensificationValue,
                         recommended_inj_speed |-> parseSettingValue(body.recommended_inj_speed),
                         target_weight_g |-> parseSettingValue(body.target_weight_g)]
                IN /\ qual' = recomputeDerivedAndSummary([qual EXCEPT !.settings = <<settings>>])
                   /\ resp' = QualResp("ok", "")
        /\ prior' = IF resp'.kind = "ok" THEN StoredSummaryKind(qual.summary) ELSE prior
        /\ UNCHANGED <<dIn, dOut, doe, recipeIds, configs, meta, runs, access>>

\* the run orders AddQualRun goes up to
MaxRunOrder == 7

\* the run orders AddGateRun goes up to
MaxGateOrder == 3

\* POST /experiments/:id/qualification/:step/runs while the orders are within
\* maxOrder
AddQualRunUpTo(maxOrder) ==
    /\ MaxRunOrderOf(qual.qual_runs) < maxOrder
    /\ \E role \in Roles :
          IF role \notin {"admin", "manager", "engineer"}
          THEN /\ resp' = QualResp("error", "Forbidden")
               /\ UNCHANGED qual
          ELSE /\ qual' = createQualRuns(qual, 1)
               /\ resp' = QualResp("ok", "")
    /\ UNCHANGED <<dIn, dOut, doe, recipeIds, configs, meta, runs, prior, access>>

AddQualRun == AddQualRunUpTo(MaxRunOrder)

AddGateRun == AddQualRunUpTo(MaxGateOrder)

\* POST /experiments/:id/qualification/:step/runs/:runId/delete, the run id one
\* of the step or one that is none
DeleteQualRun ==
    /\ \E role \in Roles, runId \in 1..(Len(qual.qual_runs) + 1) :
          IF role \notin {"admin", "manager", "engineer"}
          THEN /\ resp' = QualResp("error", "Forbidden")
               /\ UNCHANGED qual
          ELSE IF runId \notin DOMAIN qual.qual_runs
          THEN /\ resp' = QualResp("error", "Run not found")
               /\ UNCHANGED qual
          ELSE /\ qual' = deleteQualRun(qual, runId)
               /\ resp' = QualResp("ok", "")
    /\ UNCHANGED <<dIn, dOut, doe, recipeIds, configs, meta, runs, prior, access>>

\* the bodies of a flags request: both boxes ticked or neither
FlagBodies == {[done |-> b, exclude |-> b] : b \in BOOLEAN}

\* POST /qual-runs/:id/flags
UpdateQualRunFlags ==
    /\ \E role \in Roles, runId \in DOMAIN qual.qual_runs, body \in FlagBodies :
          IF role \notin {"admin", "manager", "engineer", "operator"}
          THEN /\ resp' = QualResp("error", "Forbidden")
               /\ UNCHANGED qual
          ELSE /\ qual' = updateQualRunFlags(qual, runId, IF body.done THEN 1 ELSE 0,
                                             IF body.exclude THEN 1 ELSE 0)
               /\ resp' = QualResp("ok", "")
    /\ UNCHANGED <<dIn, dOut, doe, recipeIds, configs, meta, runs, prior, access>>

\* protectedCodes of the field delete
protectedCodes ==
    {"inj_speed", "fill_time_s", "peak_inj_pressure_bar", "shear_rate_proxy", "rel_viscosity"}

\* POST /experiments/:id/qualification/fields/:fieldId/delete
DeleteQualField ==
    /\ \E role \in Roles, code \in qual.fields :
          IF role \notin {"admin", "manager", "engineer"}
          THEN /\ resp' = QualResp("error", "Forbidden")
               /\ UNCHANGED qual
          ELSE IF IsDerived(code) \/ code \in protectedCodes
          THEN /\ resp' = QualResp("error", "Protected field")
               /\ UNCHANGED qual
          ELSE /\ qual' = recomputeDerivedAndSummary(deleteQualField(qual, code))
               /\ resp' = QualResp("ok", "")
    /\ UNCHANGED <<dIn, dOut, doe, recipeIds, configs, meta, runs, prior, access>>

\* the settings row ensureQualificationDefaults stores for a step that has
\* none: steps 1 to 4 get one, with intensification_coeff 1 in step 1; the keys
\* a row does not have read as null
DefaultSettings(stepNumber) ==
    IF stepNumber \in 1..4
    THEN <<[intensification_coeff |-> IF stepNumber = 1 THEN Num(1, 1) ELSE QNull,
            recommended_inj_speed |-> QNull,
            target_weight_g |-> QNull]>>
    ELSE <<>>

\* stepDefinitions[...].default_runs
DefaultRuns(stepNumber) ==
    IF stepNumber = 2 THEN 4 ELSE IF stepNumber = 4 THEN 9 ELSE 6

\* ensureQualificationDefaults(db, experimentId) on one step: the default
\* fields the step lacks come back without values (the cavity weight fields of
\* step 2 only when the step has none), steps 1 to 4 without a settings row get
\* the default one, a step without runs gets its default runs
ensureQualificationDefaults(q) ==
    LET hasCavityWeights == q.step = 2 /\ \E code \in q.fields : parseCavityIndex(code) # 0
        missing == {code \in FieldCodeSet(q.step) \ q.fields :
                       ~(hasCavityWeights /\ parseCavityIndex(code) # 0)}
        withFields ==
            [q EXCEPT !.fields = @ \cup missing,
                      !.values = [r \in DOMAIN @ |->
                                    [code \in DOMAIN @[r] \cup missing |->
                                        IF code \in DOMAIN @[r] THEN @[r][code] ELSE QNull]],
                      !.settings = IF @ = <<>> THEN DefaultSettings(q.step) ELSE @]
    IN IF withFields.qual_runs = <<>>
       THEN createQualRuns(withFields, DefaultRuns(q.step))
       ELSE withFields

\* GET /experiments/:id/qualification/:step: after the defaults the step has a
\* run, so the page creates none of its own
OpenStepPage ==
    /\ qual' = ensureQualificationDefaults(qual)
    /\ resp' = QualResp("ok", "")
    /\ UNCHANGED <<dIn, dOut, doe, recipeIds, configs, meta, runs, prior, access>>

\* the qualification state of a specification without qualification steps
NoQual == [step |-> 0, machine |-> Null, fields |-> {}, qual_runs |-> <<>>, values |-> <<>>,
           settings |-> <<>>, summary |-> <<>>]


----------------------------------------------------------------------------
(* middleware/task_permissions.ts: the guard of the experiment routes *)

\* the roles of README "Authentication"
AllRoles == {"admin", "manager", "engineer", "operator", "viewer"}

\* req.user undefined
NoUser == [role |-> "", id |-> 0]

\* hasActiveAssignmentForExperiment(db, experimentId, userId)
hasActiveAssignmentForExperiment(assignees, userId) == userId \in assignees

\* canAccessExperiment(db, user, experimentId, experiment)
canAccessExperiment(user, experiment) ==
    IF user.role = "admin" THEN TRUE
    ELSE IF user.role = "manager" THEN TRUE
    ELSE IF experiment.owner = Null THEN TRUE
    ELSE IF user # NoUser /\ user.id = experiment.owner THEN TRUE
    ELSE IF user = NoUser THEN FALSE
    ELSE hasActiveAssignmentForExperiment(experiment.assignees, user.id)

\* ensureExperimentAccess(db)(req, res, next): "next" lets the handler run
ensureExperimentAccess(user, experiment) ==
    IF ~experiment.exists THEN "404"
    ELSE IF canAccessExperiment(user, experiment) THEN "next"
    ELSE "403"

\* no experiment-scoped request seen
NoAccess == [exists |-> FALSE, owner |-> Null, assignees |-> {}, user |-> NoUser,
             outcome |-> "none"]

----------------------------------------------------------------------------
(* Spec: one DOE study from its creation *)

DefaultSeed == 42
DefaultCenterPoints == 3
DefaultMaxRuns == 200

DesignTypes == {"SIM", "FFA", "BBD", "SCREEN"}

\* the doe_studies rows POST /experiments/:id/doe creates
DoeSettings ==
    {[design_type |-> t, seed |-> DefaultSeed, center_points |-> c, max_runs |-> m,
      replicate_count |-> r, recipe_as_block |-> b] :
        t \in DesignTypes, c \in 0..MaxCenter \cup {DefaultCenterPoints},
        m \in {MaxSize, DefaultMaxRuns}, r \in 0..MaxReplicates, b \in {0, 1}}

\* the recipe ids POST /experiments links, in order
RecipeLists == {[i \in 1..n |-> 6 + i] : n \in 0..MaxRecipes}

NoMeta == [exists |-> FALSE, non_randomized_param_id |-> Null, design |-> "",
           factors |-> <<>>, codedLevels |-> <<>>]

IdleDoe == [design_type |-> "SIM", seed |-> DefaultSeed, center_points |-> DefaultCenterPoints,
            max_runs |-> DefaultMaxRuns, replicate_count |-> 1, recipe_as_block |-> 0]

Init ==
    /\ doe \in {d \in DoeSettings :
                  IF d.design_type = "BBD"
                  THEN d.max_runs = DefaultMaxRuns /\ d.center_points <= MaxCenter
                  ELSE d.max_runs = MaxSize /\ d.center_points = DefaultCenterPoints}
    /\ recipeIds \in RecipeLists
    /\ configs = createDoeWithDefaults(doe.design_type)
    /\ meta = NoMeta
    /\ runs = <<>>
    /\ resp = NoResp
    /\ prior = NoPrior
    /\ qual = NoQual
    /\ access = NoAccess
    /\ dIn = NoCall
    /\ dOut = NoDesign

Next == SaveConfigs \/ Generate

Spec == Init /\ [][Next]_vars

----------------------------------------------------------------------------
(* RegenSpec: one DOE study without recipes or replicates, regenerated between
   configuration saves and run saves, the storing statements free to raise *)

RegenInit ==
    /\ doe \in {d \in DoeSettings :
                  /\ d.replicate_count = 1
                  /\ d.recipe_as_block = 0
                  /\ IF d.design_type = "BBD"
                     THEN d.max_runs = DefaultMaxRuns /\ d.center_points <= MaxCenter
                     ELSE d.max_runs = MaxSize /\ d.center_points = DefaultCenterPoints}
    /\ recipeIds = <<>>
    /\ configs = createDoeWithDefaults(doe.design_type)
    /\ meta = NoMeta
    /\ runs = <<>>
    /\ resp = NoResp
    /\ prior = NoPrior
    /\ qual = NoQual
    /\ access = NoAccess
    /\ dIn = NoCall
    /\ dOut = NoDesign

\* the bodies of the configs request in RegenSpec: the first factor a
\* two-level range, the other two on or off
RegenForms == {form \in Forms : form[1].active /\ form[1].levels = 2}

SaveRegenConfigs == SaveConfigsRequest(RegenForms, {Null})

RegenNext == SaveRegenConfigs \/ Regenerate \/ SaveRun

RegenSpec == RegenInit /\ [][RegenNext]_vars

----------------------------------------------------------------------------
(* DesignSpec *)

DesignInit ==
    /\ dIn \in [factors : FactorLists, seed : 0..MaxSeed, size : 0..MaxSize]
    /\ dOut = NoDesign
    /\ doe = IdleDoe
    /\ recipeIds = <<>>
    /\ configs = EmptyObj
    /\ meta = NoMeta
    /\ runs = <<>>
    /\ resp = NoResp
    /\ prior = NoPrior
    /\ qual = NoQual
    /\ access = NoAccess

DesignNext == DesignSim \/ DesignFfa \/ DesignBbd \/ DesignScreen

DesignSpec == DesignInit /\ [][DesignNext]_vars

----------------------------------------------------------------------------
(* QualSpec: one qualification step of the experiment, driven by value saves
   and settings saves *)

\* experiments.machine_id of the experiment: none or machine 1; step 4 reads no
\* setting, so its experiment has none
QualMachines(stepNumber) == IF stepNumber = 4 THEN {Null} ELSE {Null, 1}

\* a step after ensureQualificationDefaults with `runCount` runs left, none
\* with a value yet: the default settings row, no summary row
FreshStep(stepNumber, machineId, runCount) ==
    createQualRuns([step |-> stepNumber, machine |-> machineId,
                    fields |-> FieldCodeSet(stepNumber), qual_runs |-> <<>>, values |-> <<>>,
                    settings |-> DefaultSettings(stepNumber), summary |-> <<>>],
                   runCount)

\* steps 1, 2 and 4, the experiment with or without a machine
QualInit ==
    /\ \E s \in QualSteps, m \in {Null, 1} :
          /\ m \in QualMachines(s)
          /\ qual = FreshStep(s, m, Len(QualRunIds))
    /\ access = NoAccess
    /\ resp = NoResp
    /\ prior = NoPrior
    /\ doe = IdleDoe
    /\ recipeIds = <<>>
    /\ configs = EmptyObj
    /\ meta = NoMeta
    /\ runs = <<>>
    /\ dIn = NoCall
    /\ dOut = NoDesign

QualNext == SaveQualValue \/ SaveQualSettings

QualSpec == QualInit /\ [][QualNext]_vars

----------------------------------------------------------------------------
(* GateSpec: the gate seal study (step 5) with three runs *)

\* the runs of the gate seal study
GateRunIds == <<1, 2, 3>>

GateInit ==
    /\ qual = FreshStep(5, Null, Len(GateRunIds))
    /\ access = NoAccess
    /\ resp = NoResp
    /\ prior = NoPrior
    /\ doe = IdleDoe
    /\ recipeIds = <<>>
    /\ configs = EmptyObj
    /\ meta = NoMeta
    /\ runs = <<>>
    /\ dIn = NoCall
    /\ dOut = NoDesign

GateSpec == GateInit /\ [][QualNext]_vars

----------------------------------------------------------------------------
(* RunsSpec: step 5 with its runs added, deleted and flagged and its fields
   deleted between the saves *)

RunsNext ==
    \/ SaveQualValue
    \/ SaveQualSettings
    \/ AddGateRun
    \/ DeleteQualRun
    \/ UpdateQualRunFlags
    \/ DeleteQualField

\* step 5 with two of its runs left
RunsInit ==
    /\ qual = FreshStep(5, Null, 2)
    /\ access = NoAccess
    /\ resp = NoResp
    /\ prior = NoPrior
    /\ doe = IdleDoe
    /\ recipeIds = <<>>
    /\ configs = EmptyObj
    /\ meta = NoMeta
    /\ runs = <<>>
    /\ dIn = NoCall
    /\ dOut = NoDesign

RunsSpec == RunsInit /\ [][RunsNext]_vars

----------------------------------------------------------------------------
(* RunOrderSpec: steps 2 and 5 after the first view of their page, the runs
   added and deleted and the page viewed again *)

RunOrderInit ==
    /\ \E s \in {2, 5} : qual = FreshStep(s, Null, DefaultRuns(s))
    /\ access = NoAccess
    /\ resp = NoResp
    /\ prior = NoPrior
    /\ doe = IdleDoe
    /\ recipeIds = <<>>
    /\ configs = EmptyObj
    /\ meta = NoMeta
    /\ runs = <<>>
    /\ dIn = NoCall
    /\ dOut = NoDesign

RunOrderNext == OpenStepPage \/ AddQualRun \/ DeleteQualRun

RunOrderSpec == RunOrderInit /\ [][RunOrderNext]_vars

----------------------------------------------------------------------------
(* AccessSpec: requests on the routes of one experiment *)

\* the ids of the users
UserIds == 1..3

\* the experiment row, or its absence, its owner_user_id and the users with an
\* active assignment on it
AccessInit ==
    /\ access \in [exists : BOOLEAN, owner : {Null, 1, 2}, assignees : SUBSET {2, 3},
                 user : {NoUser}, outcome : {"none"}]
    /\ resp = NoResp
    /\ prior = NoPrior
    /\ qual = NoQual
    /\ doe = IdleDoe
    /\ recipeIds = <<>>
    /\ configs = EmptyObj
    /\ meta = NoMeta
    /\ runs = <<>>
    /\ dIn = NoCall
    /\ dOut = NoDesign

\* a request on /experiments/:id/... by a signed-in user or by none
RequestExperiment ==
    /\ \E user \in [role : AllRoles, id : UserIds] \cup {NoUser} :
          access' = [access EXCEPT !.user = user, !.outcome = ensureExperimentAccess(user, access)]
    /\ UNCHANGED <<dIn, dOut, doe, recipeIds, configs, meta, runs, resp, prior, qual>>

AccessNext == RequestExperiment

AccessSpec == AccessInit /\ [][AccessNext]_vars

----------------------------------------------------------------------------
(* Properties of the design builders (DesignSpec) *)

Count(seq, x) == Cardinality({i \in 1..Len(seq) : seq[i] = x})

\* s is a reordering of t
SameBag(s, t) == Len(s) = Len(t) /\ \A i \in 1..Len(s) : Count(s, s[i]) = Count(t, s[i])

\* s takes each of its elements at most as often as t has it
SubBag(s, t) == \A i \in 1..Len(s) : Count(s, s[i]) <= Count(t, s[i])

InFactors == dIn.factors
InLevels(i) == levelsFromConfig(InFactors[i])
InIds(I) == {InFactors[i].paramDefId : i \in I}
InIndex(id) == CHOOSE i \in 1..Len(InFactors) : InFactors[i].paramDefId = id

ThreeLevelIdx == {i \in 1..Len(InFactors) : Len(InLevels(i)) = 3}
NonEmptyIdx == {i \in 1..Len(InFactors) : Len(InLevels(i)) >= 1}

RECURSIVE LevelProduct(_)
LevelProduct(I) ==
    IF I = {} THEN 1
    ELSE LET i == CHOOSE x \in I : TRUE IN Len(InLevels(i)) * LevelProduct(I \ {i})

\* C2: buildBbdDesign returns exactly 4*C(k,2) + c = 2*k*(k-1) + c runs, k the
\* number of factors with exactly three levels and c the center points
C2_BbdRunCount ==
    dOut.kind = "BBD" =>
        LET k == Cardinality(ThreeLevelIdx)
        IN Len(dOut.runs) = 2 * k * (k - 1) + dIn.size

C2_Witness ==
    /\ dOut.kind = "BBD"
    /\ Cardinality(ThreeLevelIdx) = 2
    /\ Len(InFactors) = 3
    /\ dIn.size = 2
    /\ Len(dOut.runs) = 6

\* the coded run with a on factor idA, b on factor idB and 0 elsewhere
BbdPairRun(ids, idA, a, idB, b) ==
    [id \in ids |-> IF id = idA THEN a ELSE IF id = idB THEN b ELSE 0]

\* C3: the coded runs of buildBbdDesign are, as a multiset, the four (+-1, +-1)
\* runs of every unordered pair of three-level factors with the other factors
\* at 0, plus centerPoints all-zero runs; each value is level[0] for code -1,
\* level[1] for code 0 and level[2] for code +1
C3_BbdCodedStructure ==
    dOut.kind = "BBD" =>
        LET ids == InIds(ThreeLevelIdx)
            k == Cardinality(ids)
            coded == [t \in 1..Len(dOut.runs) |-> dOut.runs[t].coded]
        IN /\ Len(dOut.runs) = 2 * k * (k - 1) + dIn.size
           /\ \A idA \in ids, idB \in ids : idA < idB =>
                \A a \in {-1, 1}, b \in {-1, 1} :
                    Count(coded, BbdPairRun(ids, idA, a, idB, b)) = 1
           /\ Count(coded, [id \in ids |-> 0]) = dIn.size
           /\ \A t \in 1..Len(dOut.runs) :
                LET run == dOut.runs[t] IN
                /\ run.hasCoded
                /\ DOMAIN run.coded = ids
                /\ DOMAIN run.values = ids
                /\ \A id \in ids : run.coded[id] \in {-1, 0, 1}
                /\ Cardinality({id \in ids : run.coded[id] # 0}) \in {0, 2}
                /\ \A id \in ids :
                     run.values[id] = InLevels(InIndex(id))[run.coded[id] + 2]

C3_Witness ==
    /\ dOut.kind = "BBD"
    /\ Cardinality(ThreeLevelIdx) = 3
    /\ dIn.size = 2
    /\ Len(dOut.runs) = 14
    /\ \E t \in 1..14 : \A id \in DOMAIN dOut.runs[t].coded : dOut.runs[t].coded[id] = 0

\* C4: buildSimDesign returns min(maxRuns, product of the level counts of the
\* factors with at least one level) runs, each giving every such factor one of
\* its levels and no value to a factor without levels
C4_SimRunCountAndValues ==
    dOut.kind = "SIM" =>
        /\ Len(dOut.runs) = Min2(dIn.size, LevelProduct(NonEmptyIdx))
        /\ \A t \in 1..Len(dOut.runs) :
             /\ DOMAIN dOut.runs[t].values = InIds(NonEmptyIdx)
             /\ \A i \in NonEmptyIdx :
                  \E j \in 1..Len(InLevels(i)) :
                     dOut.runs[t].values[InFactors[i].paramDefId] = InLevels(i)[j]

C4_Witness ==
    /\ dOut.kind = "SIM"
    /\ Cardinality(NonEmptyIdx) = 2
    /\ Len(InFactors) = 3
    /\ LevelProduct(NonEmptyIdx) = 6
    /\ dIn.size = 4
    /\ Len(dOut.runs) = 4

AllAtLeastTwoLevels == \A i \in 1..Len(InFactors) : Len(InLevels(i)) >= 2

\* how many of the 2^k slot combinations give the value map f
ScreenMultiplicity(f) ==
    Cardinality({c \in [1..Len(InFactors) -> {1, 2}] :
        \A i \in 1..Len(InFactors) : InLevels(i)[c[i]] = f[InFactors[i].paramDefId]})

\* C5: with k factors of at least two levels each, buildScreenDesign returns
\* min(maxRuns, 2^k) runs, no combination of first-two-level slots is taken
\* twice (the runs are pairwise distinct when each factor's first two levels
\* differ), and every value is one of the factor's first two levels
C5_ScreenTruncation ==
    (dOut.kind = "SCREEN" /\ AllAtLeastTwoLevels) =>
        LET k == Len(InFactors) IN
        /\ Len(dOut.runs) = Min2(dIn.size, Pow2(k))
        /\ \A t \in 1..Len(dOut.runs) :
             /\ DOMAIN dOut.runs[t].values = InIds(1..k)
             /\ \A i \in 1..k :
                  dOut.runs[t].values[InFactors[i].paramDefId] \in {InLevels(i)[1], InLevels(i)[2]}
             /\ Count(dOut.runs, dOut.runs[t]) <= ScreenMultiplicity(dOut.runs[t].values)
        /\ (\A i \in 1..k : InLevels(i)[1] # InLevels(i)[2]) =>
             \A t \in 1..Len(dOut.runs), u \in 1..Len(dOut.runs) :
                t # u => dOut.runs[t] # dOut.runs[u]

C5_Witness ==
    /\ dOut.kind = "SCREEN"
    /\ AllAtLeastTwoLevels
    /\ Len(InFactors) = 3
    /\ \E i \in 1..3 : Len(InLevels(i)) = 3 /\ InLevels(i)[1] # InLevels(i)[2]
    /\ dIn.size = 4
    /\ Len(dOut.runs) = 4

\* the run list a builder built before seededShuffle
UnshuffledRuns ==
    IF dOut.kind = "SIM" THEN SimRunsUnshuffled(InFactors, dIn.size)
    ELSE IF dOut.kind = "FFA" THEN FfaRunsUnshuffled(InFactors, dIn.size)
    ELSE IF dOut.kind = "BBD" THEN
        [t \in 1..Len(BbdCodedUnshuffled(InFactors, dIn.size)) |->
            BbdCodedUnshuffled(InFactors, dIn.size)[t]]
    ELSE [t \in 1..Len(ScreenCombos(InFactors)) |->
            DesignRun(ValuesOf(InFactors, ScreenCombos(InFactors)[t]))]

ShuffledRuns ==
    IF dOut.kind = "BBD" THEN dOut.codedLevels ELSE dOut.runs

\* C6 as stated: every builder's output is a reordering of the unshuffled list
\* it built, losing and duplicating no run
C6_EveryBuilderReorders ==
    dOut.kind # "none" => SameBag(ShuffledRuns, UnshuffledRuns)

\* C6 (amended): the outputs of buildSimDesign, buildFfaDesign and
\* buildBbdDesign are reorderings of the unshuffled lists they built;
\* buildScreenDesign returns min(maxRuns, n) of its n combinations, none
\* of them more often than it was built
C6_ShuffleKeepsRuns ==
    /\ dOut.kind \in {"SIM", "FFA", "BBD"} => SameBag(ShuffledRuns, UnshuffledRuns)
    /\ dOut.kind = "SCREEN" =>
         /\ SubBag(ShuffledRuns, UnshuffledRuns)
         /\ Len(ShuffledRuns) = Min2(dIn.size, Len(UnshuffledRuns))

C6_Witness ==
    /\ dOut.kind = "BBD"
    /\ Len(dOut.codedLevels) = 14
    /\ dIn.size = 2
    /\ dOut.codedLevels # BbdCodedUnshuffled(InFactors, dIn.size)

----------------------------------------------------------------------------
(* Properties of the run materializer and the generate route (Spec) *)

\* C7: with recipe blocking on, two stored runs have the same replicate_key
\* exactly when they have the same value for every factor and the same recipe
C7_ReplicateKeyStable ==
    RecipeBlock(doe, recipeIds) =>
        \A i \in 1..Len(runs), j \in 1..Len(runs) :
            (runs[i].replicate_key = runs[j].replicate_key)
                <=> (runs[i].values = runs[j].values /\ runs[i].recipe_id = runs[j].recipe_id)

C7_Witness ==
    /\ RecipeBlock(doe, recipeIds)
    /\ Len(recipeIds) = 2
    /\ resp.kind = "generated"
    /\ \E i \in 1..Len(runs), j \in 1..Len(runs) :
         /\ i # j
         /\ runs[i].replicate_key = runs[j].replicate_key
    /\ \E i \in 1..Len(runs), j \in 1..Len(runs) :
         /\ runs[i].values = runs[j].values
         /\ runs[i].recipe_id # runs[j].recipe_id
    /\ \E i \in 1..Len(runs), j \in 1..Len(runs) :
         /\ runs[i].values # runs[j].values
         /\ runs[i].recipe_id = runs[j].recipe_id

\* the three-level factors buildBbdDesign would use for the stored configuration
StoredUsableCount == Len(BbdUsable(FactorConfigsOf(doe, configs)))

InfeasibleBbd == doe.design_type = "BBD" /\ StoredUsableCount < 3

\* C8: for a BBD study with fewer than three usable three-level factors the
\* preview carries a warning and a generate request is refused: it leaves the
\* stored runs and the design metadata as they were
C8_InfeasibleBbdRefused ==
    [][(InfeasibleBbd /\ Generate) =>
          /\ buildRunPreview(doe, listInputParams, configs, recipeIds).warning # ""
          /\ resp'.kind = "refused"
          /\ resp'.message # ""
          /\ runs' = runs
          /\ meta' = meta]_vars

C8_Witness ==
    /\ InfeasibleBbd
    /\ resp.kind = "refused"
    /\ StoredUsableCount = 2
    /\ Len(runs) > 0
    /\ meta.design = "BBD"

\* C9: whenever generation is allowed, the preview's totalRuns equals the
\* number of runs generateRuns inserts
C9_PreviewPredictsCount ==
    resp.kind = "generated" => resp.totalRuns = resp.inserted

\* the zero-padded three digits of n < 1000
ThreeDigits(n) == <<n \div 100, (n \div 10) % 10, n % 10>>

\* C10: the inserted runs have run_order 1..N, N = recipe passes x design runs
\* x replicate_count, assigned recipe-outermost, design run in the middle and
\* replicate index 1..replicate_count innermost, and the run of order n has
\* the code E{experimentId}-R{n padded to three digits}
C10_RunOrderDense ==
    /\ \A n \in 1..Len(runs) :
         /\ runs[n].run_order = n
         /\ runs[n].run_code.prefix = "E"
         /\ runs[n].run_code.experiment = ExperimentId
         /\ runs[n].run_code.sep = "-R"
         /\ n < 1000 => runs[n].run_code.number = ThreeDigits(n)
    /\ resp.kind = "generated" =>
         LET designRuns == DesignRunsOf(doe, configs, meta)
             D == Len(designRuns)
             R == doe.replicate_count
             recipeList == RecipeList(doe, recipeIds)
         IN /\ Len(runs) = Len(recipeList) * D * R
            /\ \A n \in 1..Len(runs) :
                 /\ runs[n].recipe_id = recipeList[((n - 1) \div (D * R)) + 1]
                 /\ runs[n].replicate_index = ((n - 1) % R) + 1
                 /\ LET baseRun == designRuns[(((n - 1) \div R) % D) + 1]
                    IN \A p \in DOMAIN baseRun.values :
                         runs[n].values[p] = baseRun.values[p]

C10_Witness ==
    /\ resp.kind = "generated"
    /\ Len(RecipeList(doe, recipeIds)) = 2
    /\ doe.replicate_count = 2
    /\ Len(DesignRunsOf(doe, configs, meta)) = 4
    /\ Len(runs) = 16
    /\ runs[16].run_order = 16
    /\ runs[16].replicate_index = 2

\* C11: in every run generateRuns produced, every active factor has a numeric
\* value: the design value when the builder supplied one, otherwise the
\* fallback
C11_ActiveFactorsHaveValues ==
    resp.kind = "generated" =>
        \A n \in 1..Len(runs) : \A p \in DOMAIN configs :
            configs[p].active = 1 => IsFinite(runs[n].values[p])

\* the output of the design builder for the stored configuration, before any
\* re-sort
BuilderRuns == DesignOf(doe, FactorConfigsOf(doe, configs)).runs

\* a value map has no finite value for p
Lacks(values, p) == ~(p \in DOMAIN values /\ IsFinite(values[p]))

\* va sorts strictly before vb by p, a missing value being last
KeyLess(va, vb, p) == ~Lacks(va, p) /\ (Lacks(vb, p) \/ va[p] < vb[p])

KeyEq(va, vb, p) == ~KeyLess(va, vb, p) /\ ~KeyLess(vb, va, p)

\* the place of B[i] in the stable ascending order of B by p
StableRank(B, i, p) ==
    1 + Cardinality({j \in 1..Len(B) :
                        \/ KeyLess(B[j].values, B[i].values, p)
                        \/ KeyEq(B[j].values, B[i].values, p) /\ j < i})

\* C12 as claimed: with a non-randomized parameter p the whole stored run list,
\* read in run_order, ascends by p with missing values last, for any number of
\* recipe passes
C12_WholeListSorted ==
    (resp.kind = "generated" /\ NonRandomizedParamId(meta) # Null) =>
        \A n \in 1..Len(runs), m \in 1..Len(runs) :
            n < m => ~KeyLess(runs[m].values, runs[n].values, NonRandomizedParamId(meta))

\* C12 amended: with a non-randomized parameter p, within each recipe pass the
\* stored runs ascend by p with missing values last, and the design run at
\* place b of a pass is the builder's run of stable rank b, so equal values of
\* p keep the builder's order; with a single pass the whole list is sorted
C12_SortedWithinRecipePass ==
    (resp.kind = "generated" /\ NonRandomizedParamId(meta) # Null) =>
        LET p == NonRandomizedParamId(meta)
            B == BuilderRuns
            D == Len(B)
            R == doe.replicate_count
            pass(n) == (n - 1) \div (D * R)
        IN /\ \A n \in 1..Len(runs), m \in 1..Len(runs) :
                (n < m /\ pass(n) = pass(m)) => ~KeyLess(runs[m].values, runs[n].values, p)
           /\ \A n \in 1..Len(runs) :
                \E i \in 1..D :
                    /\ StableRank(B, i, p) = (((n - 1) \div R) % D) + 1
                    /\ \A q \in DOMAIN B[i].values : runs[n].values[q] = B[i].values[q]
           /\ Len(RecipeList(doe, recipeIds)) = 1 =>
                \A n \in 1..Len(runs), m \in 1..Len(runs) :
                    n < m => ~KeyLess(runs[m].values, runs[n].values, p)

C12_Witness ==
    /\ resp.kind = "generated"
    /\ NonRandomizedParamId(meta) = 2
    /\ Len(RecipeList(doe, recipeIds)) = 2
    /\ doe.replicate_count = 2
    /\ Len(runs) = 16
    /\ \E i \in 1..Len(BuilderRuns), j \in 1..Len(BuilderRuns) :
         /\ i < j
         /\ KeyLess(BuilderRuns[j].values, BuilderRuns[i].values, 2)
    /\ \E i \in 1..Len(BuilderRuns), j \in 1..Len(BuilderRuns) :
         /\ i # j
         /\ KeyEq(BuilderRuns[i].values, BuilderRuns[j].values, 2)
         /\ BuilderRuns[i].values # BuilderRuns[j].values

----------------------------------------------------------------------------
(* Properties of regeneration (RegenSpec) *)

C14_RegenerationAtomic ==
    [][(Regenerate /\ resp'.kind = "error") => (runs' = runs /\ meta' = meta)]_vars

----------------------------------------------------------------------------
(* Properties of the qualification steps (QualSpec) *)

\* the parameter value a token of the step settings stands for on the linked
\* machine: machine 1 has parameter 5 only
TokenResolves(raw) == raw.k = "token" /\ qual.machine = 1 /\ raw.n = 1 /\ raw.d = 5

\* the intensification coefficient the step-1 formula is stated with: the
\* resolved setting, or 1 when it is absent, no number or unresolvable
StatedCoeff ==
    IF qual.settings = <<>> THEN Num(1, 1)
    ELSE LET raw == qual.settings[1].intensification_coeff
         IN IF raw.k = "num" THEN raw
            ELSE IF TokenResolves(raw) THEN Num(2, 1)
            ELSE Num(1, 1)

FilledWeights(r) ==
    SelectSeq([i \in 1..4 |->
                  qual.values[r][<<"cavity1_weight_g", "cavity2_weight_g",
                                   "cavity3_weight_g", "cavity4_weight_g">>[i]]],
              LAMBDA w : w.k = "num")

\* the configured target_weight_g of step 2, QNull when none is configured
StatedTarget ==
    IF qual.settings = <<>> THEN QNull
    ELSE LET raw == qual.settings[1].target_weight_g
         IN IF raw.k = "num" THEN raw
            ELSE IF TokenResolves(raw) THEN Num(2, 1)
            ELSE QNull

\* max over the weights w of |ref - w| / ref x 100
StatedVariation(ref, weights) ==
    Mul(MaxQ([i \in 1..Len(weights) |-> Div(AbsQ(Sub(ref, weights[i])), ref)]), Num(100, 1))

C17_UnresolvableTokenAbsent ==
    qual.settings # <<>> =>
        \A key \in DOMAIN qual.settings[1] :
            LET raw == qual.settings[1][key]
                unset == [qual EXCEPT !.settings[1][key] = QNull]
            IN (raw.k = "token" /\ ~TokenResolves(raw)) =>
                 /\ recomputeDerivedAndSummary(qual).values =
                        recomputeDerivedAndSummary(unset).values
                 /\ recomputeDerivedAndSummary(qual).summary =
                        recomputeDerivedAndSummary(unset).summary
                 /\ qual.values = recomputeDerivedAndSummary(unset).values
                 /\ qual.summary = recomputeDerivedAndSummary(unset).summary

\* no machine is linked, the coefficient is a token, and fill 2 with peak 100
\* gives 200 as with no coefficient
C17_Witness ==
    /\ qual.step = 1
    /\ qual.machine = Null
    /\ qual.settings # <<>>
    /\ qual.settings[1].intensification_coeff = Token(1, 5)
    /\ qual.values[1]["fill_time_s"] = Num(2, 1)
    /\ qual.values[1]["peak_inj_pressure_bar"] = Num(100, 1)
    /\ qual.values[1]["rel_viscosity"] = Num(200, 1)

\* C18: a run whose raw input is missing has the derived field null: in step 1
\* shear_rate_proxy and rel_viscosity when fill_time_s is missing or 0 and
\* rel_viscosity when peak_inj_pressure_bar is missing, in step 2
\* cavity_weight_variation_pct when no cavity weight is filled
C18_MissingInputNullDerived ==
    \A r \in DOMAIN qual.values :
        /\ qual.step = 1 =>
              LET fill == qual.values[r]["fill_time_s"]
                  peak == qual.values[r]["peak_inj_pressure_bar"]
              IN /\ (fill = QNull \/ fill = Num(0, 1)) =>
                       /\ qual.values[r]["shear_rate_proxy"] = QNull
                       /\ qual.values[r]["rel_viscosity"] = QNull
                 /\ peak = QNull => qual.values[r]["rel_viscosity"] = QNull
        /\ qual.step = 2 =>
              (FilledWeights(r) = <<>> =>
                   qual.values[r]["cavity_weight_variation_pct"] = QNull)

\* C19: a value save that names a derived field is answered with an error and
\* leaves every stored run value, derived value and the summary as they were
C19_DerivedNotEditable ==
    [][\A runId \in DOMAIN qual.values, code \in FieldCodeSet(qual.step) :
          (IsDerived(code) /\ SaveQualValueOf(runId, code)) =>
              (resp'.kind = "error" /\ qual' = qual)]_vars

\* a derived field holds a computed value and a save naming a derived field
\* has just been refused
C19_Witness ==
    /\ qual.step = 1
    /\ resp = QualResp("error", "Derived field")
    /\ qual.values[1]["shear_rate_proxy"] = Num(1, 2)

\* the summary of the step built from the stored values of all its runs, with
\* the recommended_inj_speed of the step-1 settings when that is a number
ScratchSummary ==
    LET built == buildStepSummary(qual.step, qual.values)
        speed == IF qual.settings = <<>> THEN QNull
                 ELSE LET raw == qual.settings[1].recommended_inj_speed
                      IN IF raw.k = "num" THEN raw
                         ELSE IF TokenResolves(raw) THEN Num(2, 1)
                         ELSE QNull
    IN IF qual.step = 1 /\ speed # QNull
       THEN [built EXCEPT !["recommended_inj_speed"] = speed]
       ELSE built

RunsWithBoth ==
    {r \in DOMAIN qual.values :
        qual.values[r]["inj_speed"] # QNull /\ qual.values[r]["rel_viscosity"] # QNull}

\* the inj_speed of the first run in run order among those of lowest
\* rel_viscosity, null when no run has both values
LowestViscositySpeed ==
    IF RunsWithBoth = {} THEN QNull
    ELSE LET lowest == {r \in RunsWithBoth :
                          \A o \in RunsWithBoth :
                              ~Less(qual.values[o]["rel_viscosity"],
                                    qual.values[r]["rel_viscosity"])}
             first == CHOOSE r \in lowest : \A o \in lowest : r <= o
         IN qual.values[first]["inj_speed"]

\* the recommended_inj_speed of the step settings as a number, QNull when the
\* settings hold none
SettingsSpeed ==
    IF qual.settings = <<>> THEN QNull
    ELSE LET raw == qual.settings[1].recommended_inj_speed
         IN IF raw.k = "num" THEN raw
            ELSE IF TokenResolves(raw) THEN Num(2, 1)
            ELSE QNull

\* C21 as stated: the stored recommended_inj_speed of step 1 is the inj_speed
\* of the run of lowest rel_viscosity, whatever the step settings contain
C21_RecommendedFromRuns ==
    (qual.step = 1 /\ qual.summary # <<>>) =>
        qual.summary[1]["recommended_inj_speed"] = LowestViscositySpeed

\* C21: the stored recommended_inj_speed of step 1 is the recommended_inj_speed
\* of the step settings when that resolves to a number, and otherwise the
\* inj_speed of the run of lowest rel_viscosity among the runs with both values,
\* the first in run order on ties, null when no run has both
C21_RecommendedSpeed ==
    (qual.step = 1 /\ qual.summary # <<>>) =>
        qual.summary[1]["recommended_inj_speed"] =
            IF SettingsSpeed # QNull THEN SettingsSpeed ELSE LowestViscositySpeed

\* both runs have a rel_viscosity of 200, no speed is set in the settings, and
\* the summary recommends the speed of run 1
C21_Witness ==
    /\ qual.step = 1
    /\ qual.summary # <<>>
    /\ SettingsSpeed = QNull
    /\ qual.values[1]["rel_viscosity"] = Num(200, 1)
    /\ qual.values[2]["rel_viscosity"] = Num(200, 1)
    /\ qual.values[1]["inj_speed"] = Num(10, 1)
    /\ qual.values[2]["inj_speed"] = Num(20, 1)
    /\ qual.summary[1]["recommended_inj_speed"] = Num(10, 1)

\* C22: a second recompute of step 2 right after a first, with no raw value,
\* field or setting changed in between, leaves the cavity_weight_variation_pct
\* of every run and the stored summary as the first left them
C22_RecomputeIdempotent ==
    qual.step = 2 =>
        LET once == recomputeDerivedAndSummary(qual)
            twice == recomputeDerivedAndSummary(once)
        IN /\ \A r \in DOMAIN qual.values :
                 twice.values[r]["cavity_weight_variation_pct"] =
                    once.values[r]["cavity_weight_variation_pct"]
           /\ twice.summary = once.summary

\* the last save recomputed a variation of 5 from three weights and a further
\* recompute finds nothing to change
C22_Witness ==
    /\ qual.step = 2
    /\ resp.kind = "ok"
    /\ Len(FilledWeights(1)) = 3
    /\ qual.values[1]["cavity_weight_variation_pct"] = Num(5, 1)
    /\ qual.summary[1]["max_cavity_imbalance_pct"] = Num(5, 1)
    /\ recomputeDerivedAndSummary(qual) = qual

\* the least and the greatest number of a non-empty set of numbers
LeastOf(S) == CHOOSE x \in S : \A y \in S : ~Less(y, x)
GreatestOf(S) == CHOOSE x \in S : \A y \in S : ~Less(x, y)

\* the qualifying runs of step 4: melt_temp_c and hold_pressure_bar present,
\* neither the short-shot nor the flash flag set
QualifyingRuns ==
    {r \in DOMAIN qual.values :
        /\ qual.values[r]["melt_temp_c"] # QNull
        /\ qual.values[r]["hold_pressure_bar"] # QNull
        /\ qual.values[r]["defect_short_shot"] # Num(1, 1)
        /\ qual.values[r]["defect_flash"] # Num(1, 1)}

\* the hold pressures of the qualifying runs at temperature t
PressuresAt(t) ==
    {qual.values[r]["hold_pressure_bar"] :
        r \in {q \in QualifyingRuns : qual.values[q]["melt_temp_c"] = t}}

WindowKeys ==
    {"window_low_temp", "window_high_temp", "window_low_pressure_min",
     "window_low_pressure_max", "window_high_pressure_min", "window_high_pressure_max",
     "window_center_temp", "window_center_pressure"}

GateRuns ==
    {r \in DOMAIN qual.values :
        qual.values[r]["hold_time_s"] # QNull /\ qual.values[r]["part_weight_g"] # QNull}

\* the place of run r among GateRuns by hold time ascending, runs of equal
\* hold time in run order
GatePlace(r) ==
    1 + Cardinality({o \in GateRuns :
                        \/ Less(qual.values[o]["hold_time_s"], qual.values[r]["hold_time_s"])
                        \/ /\ qual.values[o]["hold_time_s"] = qual.values[r]["hold_time_s"]
                           /\ o < r})

\* the weight of run r differs from the weight w of the run before it by at
\* most 1% of w
WithinOnePercent(w, r) ==
    ~Less(Div(w, Num(100, 1)), AbsQ(Sub(qual.values[r]["part_weight_g"], w)))

\* the hold time of the first run by place that Seals(weight before, run),
\* null when there is none
FirstSeal(Seals(_, _)) ==
    LET sealing == {r \in GateRuns :
                      \E o \in GateRuns :
                          /\ GatePlace(o) + 1 = GatePlace(r)
                          /\ Seals(qual.values[o]["part_weight_g"], r)}
    IN IF sealing = {} THEN QNull
       ELSE LET first == CHOOSE r \in sealing :
                            \A o \in sealing : GatePlace(r) <= GatePlace(o)
            IN qual.values[first]["hold_time_s"]

SealsSkippingZero(w, r) == w.n # 0 /\ WithinOnePercent(w, r)

----------------------------------------------------------------------------
(* Further properties of the design builders (DesignSpec) *)

\* C26: buildFfaDesign returns no run when one of the supplied factors has no
\* level, for every seed and maxRuns, and otherwise min(maxRuns, product of the
\* level counts) runs, each with a level of every supplied factor
C26_FfaReadiness ==
    dOut.kind = "FFA" =>
        IF \E i \in 1..Len(InFactors) : Len(InLevels(i)) = 0
        THEN dOut.runs = <<>>
        ELSE /\ Len(dOut.runs) = Min2(dIn.size, LevelProduct(1..Len(InFactors)))
             /\ \A t \in 1..Len(dOut.runs), i \in 1..Len(InFactors) :
                   /\ InFactors[i].paramDefId \in DOMAIN dOut.runs[t].values
                   /\ \E l \in 1..Len(InLevels(i)) :
                         dOut.runs[t].values[InFactors[i].paramDefId] = InLevels(i)[l]

\* two factors with levels and one range without its upper bound, room for
\* runs, and the full factorial builder has returned none
C26_Witness ==
    /\ dOut.kind = "FFA"
    /\ Len(dIn.factors) = 3
    /\ dIn.size > 0
    /\ Len(levelsFromConfig(dIn.factors[1])) = 3
    /\ Len(levelsFromConfig(dIn.factors[2])) = 2
    /\ dIn.factors[3].mode = "RANGE" /\ dIn.factors[3].rangeMax = Null
    /\ dOut.runs = <<>>

----------------------------------------------------------------------------
(* Properties of the recipe passes and the replicates (Spec) *)

\* the rows one pass over the design runs gives
PassLength == Len(BuilderRuns) * doe.replicate_count

\* the runs are `ids` passes of PassLength rows, pass i carrying ids[i]
PassesCarry(ids) ==
    /\ Len(runs) = Len(ids) * PassLength
    /\ \A n \in 1..Len(runs) : runs[n].recipe_id = ids[((n - 1) \div PassLength) + 1]

\* C27 as stated: with recipe blocking on and a recipe linked there is one pass
\* per linked recipe, each row carrying the recipe of its pass; with blocking
\* off there is one pass and every row has recipe_id null, however many recipes
\* are linked
C27_PassesAsStated ==
    resp.kind = "generated" =>
        IF doe.recipe_as_block = 1 /\ Len(recipeIds) > 0
        THEN PassesCarry(recipeIds)
        ELSE PassesCarry(<<Null>>)

\* C27: with blocking off, or no recipe linked, the one pass carries the
\* linked recipe when exactly one is linked and null otherwise
C27_RecipePasses ==
    resp.kind = "generated" =>
        IF doe.recipe_as_block = 1 /\ Len(recipeIds) > 0
        THEN PassesCarry(recipeIds)
        ELSE IF Len(recipeIds) = 1
        THEN PassesCarry(<<recipeIds[1]>>)
        ELSE PassesCarry(<<Null>>)

\* blocking is off, two recipes are linked, and the generated runs are one
\* pass without a recipe
C27_Witness ==
    /\ resp.kind = "generated"
    /\ doe.recipe_as_block = 0
    /\ Len(recipeIds) = 2
    /\ PassLength > 1
    /\ Len(runs) = PassLength
    /\ \A n \in 1..Len(runs) : runs[n].recipe_id = Null

\* C29: no two runs of one generation have the same recipe_id, replicate_key
\* and replicate_index
C29_ReplicateIdentityUnique ==
    resp.kind = "generated" =>
        \A m, n \in 1..Len(runs) :
            m # n => \/ runs[m].recipe_id # runs[n].recipe_id
                     \/ runs[m].replicate_key # runs[n].replicate_key
                     \/ runs[m].replicate_index # runs[n].replicate_index

----------------------------------------------------------------------------
(* Properties of the experiment guard (AccessSpec) *)

\* C23: a request on a route of an existing experiment is let through when the
\* user has role admin or owns the experiment, and every other user is refused
\* with 403
C23_OnlyAdminOrOwner ==
    (access.outcome # "none" /\ access.exists) =>
        IF access.user.role = "admin" \/ (access.user # NoUser /\ access.user.id = access.owner)
        THEN access.outcome = "next"
        ELSE access.outcome = "403"

----------------------------------------------------------------------------
(* Properties of the runs of a qualification step (RunsSpec, RunOrderSpec) *)

\* the hold times the runs of the step have stored now
StoredHoldTimes == {numberFor(qual.values[r], "hold_time_s") : r \in DOMAIN qual.values}

\* C28: once a summary of the step is stored, it is at every later moment the
\* summary buildStepSummary gives for the runs and values stored at that
\* moment, and a gate seal time it holds is the hold time of a run of the step
C28_SummaryTracksRuns ==
    qual.summary # <<>> =>
        /\ qual.summary[1] = buildStepSummary(qual.step, qual.values)
        /\ qual.summary[1]["gate_seal_time_s"] # QNull =>
              qual.summary[1]["gate_seal_time_s"] \in StoredHoldTimes

\* no two runs of the step have the same run_order or the same run_code
RunOrdersDistinct ==
    \A i, j \in DOMAIN qual.qual_runs :
        i # j => /\ qual.qual_runs[i].run_order # qual.qual_runs[j].run_order
                 /\ qual.qual_runs[i].run_code # qual.qual_runs[j].run_code

\* a step that gains runs gives each of them an order above every order the
\* step had stored
NewRunsOnTop ==
    Len(qual'.qual_runs) > Len(qual.qual_runs) =>
        \A j \in (Len(qual.qual_runs) + 1)..Len(qual'.qual_runs) :
            \A i \in DOMAIN qual.qual_runs :
                qual'.qual_runs[j].run_order > qual.qual_runs[i].run_order

\* C30: whatever runs are added, created by default or deleted, the runs of a
\* step have pairwise distinct run orders and run codes, and a new run gets an
\* order greater than every order stored for the step
C30_RunOrdersUnique == []RunOrdersDistinct /\ [][NewRunsOnTop]_vars

\* a run was deleted below the newest one and a run added past the default
\* ones: the orders have a gap and reach above the default count
C30_Witness ==
    /\ qual.step \in {2, 5}
    /\ Len(qual.qual_runs) >= 2
    /\ MaxRunOrderOf(qual.qual_runs) > DefaultRuns(qual.step)
    /\ Len(qual.qual_runs) < MaxRunOrderOf(qual.qual_runs)

====
